---- MODULE Spec2Model ----
(***************************************************************************)
(* A model of the cobot agent runtime: the plugin registry's hook chain    *)
(* (plugins/registry.py), the message orchestrator (agent.py) and the      *)
(* pairing store and plugin (plugins/pairing).                             *)
(*                                                                         *)
(* Its specifications share the module and its variables:                  *)
(*   Spec        - Cobot.poll / handle_message / respond with the sibling  *)
(*                 tasks of one poll cycle interleaving at the awaits;     *)
(*   SpecRespond - one message, with an LLM that asks for tools in every   *)
(*                 round and with blank texts, under weak fairness;        *)
(*   SpecRegistry - registration and lifecycle of the PluginRegistry as    *)
(*                 init_plugins and the later callers drive it;            *)
(*   SpecHook    - PluginRegistry.run_hook as a function of the plugins'   *)
(*                 behaviour, applied to inputs drawn from bounded sets;   *)
(*   SpecStore   - PairingPlugin.start and the calls of one PairingStorage;*)
(*   SpecPairing - the pairing hook of the agent and the operator CLI, two *)
(*                 PairingStorage instances on one file;                   *)
(*   SpecInitPlugins - the registration loop of init_plugins over the      *)
(*                 discovered classes, for every plugin configuration;     *)
(*   SpecSession - communication.send and communication.poll over the      *)
(*                 channel adapters (plugins/session, communication);      *)
(*   SpecLurker  - the two hooks of the lurker plugin (plugins/lurker);    *)
(*   SpecConfig  - `cobot config set` and `cobot config get` (cli.py);     *)
(*   SpecRun     - concurrent `cobot run` and `cobot restart` commands on  *)
(*                 the PID file (cli.py).                                  *)
(***************************************************************************)
EXTENDS Integers, Sequences, FiniteSets, TLC

(***************************************************************************)
(* Bounds of the model.                                                    *)
(***************************************************************************)
\* Plugins registered in the registry of SpecHook (ids 1..HookPlugins, the
\* load order is the numeric order).
HookPlugins == 3

\* Cut-off for the nesting of on_error chains inside run_hook.
MaxErrorDepth == 3

\* Storage calls made after PairingPlugin.start in SpecStore.
MaxStoreOps == 3

\* Spec: messages one comm.poll returns, and handle_message dispatches and
\* LLM replies carrying tool calls over the whole run.
MaxBatch == 2

MaxDispatches == 2

MaxToolReplies == 1

\* SpecRespond: blank texts (an LLM content, a text a hook sets) per run
MaxBlankTexts == 2

\* polls of a run on which communication.poll raises
MaxPollFailures == 1

\* SpecRegistry: register calls of a startup, start_all / stop_all calls
\* after it, plugin methods that raise over the run, and the range of
\* PluginMeta.priority
MaxRegisterCalls == 3

MaxLifecycleCalls == 3

MaxPluginFailures == 1

MaxLookups == 1

MaxTimestamp == 2

MaxObserved == 2

MaxValueLen == 2

MaxConfigCommands == 2

MaxChannelBatch == 2

MaxPriority == 2

\* SpecPairing: messages the gate sees, runs of the CLI
MaxGateMsgs == 3

MaxCliRuns == 2

\* SpecRun: `cobot run` invocations (each a process with a PID of its own)
\* and SIGUSR1 signals sent by `cobot restart`
MaxRunProcs == 3

MaxRestartSignals == 2

(***************************************************************************)
(* plugins/base.py: the closed set of hook names.                          *)
(***************************************************************************)
HOOK_METHODS ==
    { "on_message_received", "transform_system_prompt", "transform_history",
      "on_before_llm_call", "on_after_llm_call", "on_before_tool_exec",
      "on_after_tool_exec", "transform_response", "on_before_send",
      "on_after_send", "on_error" }

(***************************************************************************)
(* What one invocation of a plugin's hook method can do, as run_hook sees  *)
(* it:                                                                     *)
(*   skip        the plugin only inherits Plugin's no-op (not overridden); *)
(*   ok          returns a context (or None) without abort;                *)
(*   abort       returns a context carrying abort;                         *)
(*   raise       raises without touching abort;                            *)
(*   abort_raise sets abort on the context it was given, then raises.      *)
(*               A hook written as a plain `def` does exactly this when it *)
(*               sets abort: `await method(ctx)` runs the body and then    *)
(*               fails on awaiting the dict it returned.                   *)
(***************************************************************************)
Behaviours == {"skip", "ok", "abort", "raise", "abort_raise"}

Raises(b) == b \in {"raise", "abort_raise"}

SetsAbort(b) == b \in {"abort", "abort_raise"}

(***************************************************************************)
(* run_hook's `except Exception` branch: the exception is printed, on_error *)
(* is dispatched unless the hook is on_error itself, and the loop goes on  *)
(* with the next plugin (no break, no re-raise, and the abort test of the  *)
(* try body is not reached).                                               *)
(***************************************************************************)
ExceptBreaksChain(name) ==
    [dispatch |-> name # "on_error", continue |-> FALSE, propagate |-> FALSE]

ErrorsReenter(name) ==
    [dispatch |-> TRUE, continue |-> TRUE, propagate |-> FALSE]

OnHookException(name) ==
    [dispatch |-> name # "on_error", continue |-> TRUE, propagate |-> FALSE]

(***************************************************************************)
(* run_hook's test after a hook returned normally: `if ctx.get("abort"):   *)
(* break`.                                                                 *)
(***************************************************************************)
BreakOnAbort(abort) == abort

(***************************************************************************)
(* The state of one run_hook call while it iterates:                       *)
(*   abort   ctx.get("abort") of the context of this chain;                *)
(*   calls   every hook method invoked so far, nested on_error chains      *)
(*           included, each with the abort flag its context carried when   *)
(*           the method was entered;                                       *)
(*   errors  the on_error dispatches made so far (hook, plugin);           *)
(*   raised  an exception left run_hook.                                   *)
(* reg.depth is the nesting depth of the chain: 0 for the chain run_hook   *)
(* was called for, 1 for an on_error chain it dispatched.  MaxErrorDepth   *)
(* cuts the recursion off; the code never nests deeper than 1.             *)
(***************************************************************************)
HookState0 ==
    [abort |-> FALSE, calls |-> <<>>, errors |-> <<>>, raised |-> FALSE]

RECURSIVE HookLoop(_, _, _, _)
HookLoop(reg, name, i, st) ==
    IF i > Len(reg.order) \/ st.raised
    THEN st
    ELSE
      LET p == reg.order[i]
          b == IF name = "on_error" THEN reg.beh[p].err ELSE reg.beh[p].hook
      IN
      IF b = "skip"
      THEN HookLoop(reg, name, i + 1, st)
      ELSE
        LET entered ==
              [st EXCEPT !.calls =
                  Append(@, [plugin |-> p, hook |-> name,
                             abortAtEntry |-> st.abort, depth |-> reg.depth])]
            after == [entered EXCEPT !.abort = @ \/ SetsAbort(b)]
        IN
        IF ~Raises(b)
        THEN IF BreakOnAbort(after.abort)
             THEN after
             ELSE HookLoop(reg, name, i + 1, after)
        ELSE
          LET h == OnHookException(name)
              dispatched ==
                IF h.dispatch /\ reg.depth < MaxErrorDepth
                THEN
                  LET inner ==
                        HookLoop([reg EXCEPT !.depth = @ + 1], "on_error", 1,
                                 [after EXCEPT
                                    !.abort = FALSE,
                                    !.errors = Append(@, [hook |-> name,
                                                          plugin |-> p])])
                  IN [inner EXCEPT !.abort = after.abort]
                ELSE after
          IN
          IF h.propagate
          THEN [dispatched EXCEPT !.raised = TRUE]
          ELSE IF h.continue
          THEN HookLoop(reg, name, i + 1, dispatched)
          ELSE dispatched

(***************************************************************************)
(* PluginRegistry.run_hook(hook_name, ctx) for a registry whose load order *)
(* is `order` and whose plugins behave as `beh` says: beh[p].hook on the   *)
(* named hook and beh[p].err on on_error.  A name outside HOOK_METHODS     *)
(* returns the context at once.                                            *)
(***************************************************************************)
run_hook(order, beh, name) ==
    IF name \notin HOOK_METHODS
    THEN HookState0
    ELSE HookLoop([order |-> order, beh |-> beh, depth |-> 0], name, 1,
                  HookState0)

(***************************************************************************)
(* plugins/pairing/storage.py.                                             *)
(*                                                                         *)
(* A user id is a value with its YAML/Python type (v is its decimal text): *)
(* the API applies str(user_id) to what it is given, while entries loaded  *)
(* from the file keep the type the file gave them.  A code is a string;    *)
(* lookups upper-case the code they are given.  approved_at and            *)
(* requested_at are left out: no operation reads them.                     *)
(***************************************************************************)
StrId(v) == [t |-> "str", v |-> v]

IntId(v) == [t |-> "int", v |-> v]

\* str(user_id)
Str(x) == [t |-> "str", v |-> x.v]

\* code.upper(); generate_code only produces upper-case codes
Upper(code) ==
    CASE code = "k1" -> "K1"
      [] code = "k2" -> "K2"
      [] OTHER -> code

\* the codes generate_code can return in the model (secrets.choice draws
\* them at random, so two requests can receive the same code)
Codes == {"K1", "K2"}

\* PairingStorage.__init__ before _load
NewStorage == [authorized |-> <<>>, pending |-> <<>>, last_mtime |-> 0]

\* The store file: absent, unparsable ("garbage": yaml or dataclass
\* construction fails), or a YAML document with the two lists.
NoFile ==
    [exists |-> FALSE, content |-> "yaml", authorized |-> <<>>,
     pending |-> <<>>, mtime |-> 0]

\* PairingStorage._load
_load(S, F) ==
    IF ~F.exists THEN S
    ELSE IF F.content = "yaml"
    THEN [authorized |-> F.authorized, pending |-> F.pending,
          last_mtime |-> F.mtime]
    ELSE [authorized |-> <<>>, pending |-> <<>>, last_mtime |-> F.mtime]

\* PairingStorage._reload_if_changed
_reload_if_changed(S, F) ==
    IF ~F.exists THEN S
    ELSE IF F.mtime > S.last_mtime THEN _load(S, F) ELSE S

\* PairingStorage._save: open(path, "w") and yaml.dump of both lists; the
\* write advances the file's modification time.  _last_mtime is not touched.
_save(S, F) ==
    [exists |-> TRUE, content |-> "yaml", authorized |-> S.authorized,
     pending |-> S.pending, mtime |-> F.mtime + 1]

\* _save seen from another process.  `open(self._path, "w")` truncates the
\* file in place: until yaml.dump's output is flushed the file exists, is
\* empty (yaml.safe_load gives None, so both lists load empty) and carries a
\* new modification time.
Truncated(F) ==
    [exists |-> TRUE, content |-> "yaml", authorized |-> <<>>,
     pending |-> <<>>, mtime |-> F.mtime + 1]

\* The flush of yaml.dump's output at the close of the file.  The write
\* stamps the file again; with the truncation a few microseconds earlier the
\* stamp can be the same clock tick (same_tick) or a later one.
Flushed(S, F, same_tick) ==
    [exists |-> TRUE, content |-> "yaml", authorized |-> S.authorized,
     pending |-> S.pending,
     mtime |-> IF same_tick THEN F.mtime ELSE F.mtime + 1]

\* the test of is_authorized on the in-memory list
InAuthorized(S, channel, uid) ==
    \E k \in 1 .. Len(S.authorized) :
        S.authorized[k].channel = channel /\ S.authorized[k].user_id = uid

\* PairingStorage.is_authorized: reload, then look the user up
is_authorized(S, F, channel, user_id) ==
    LET S1 == _reload_if_changed(S, F)
    IN [S |-> S1, F |-> F, result |-> InAuthorized(S1, channel, Str(user_id))]

\* Python's None
None == [none |-> TRUE]

\* first element of a sequence satisfying Test, or None
FirstWhere(seq, Test(_)) ==
    LET hits == SelectSeq(seq, Test)
    IN IF hits = <<>> THEN None ELSE Head(hits)

\* PairingStorage.get_pending_by_code
get_pending_by_code(S, code) ==
    FirstWhere(S.pending, LAMBDA r : r.code = Upper(code))

\* PairingStorage.get_pending_for_user
get_pending_for_user(S, channel, user_id) ==
    FirstWhere(S.pending,
               LAMBDA r : r.channel = channel /\ r.user_id = Str(user_id))

\* add_pending without the look-up of an existing request
AddPendingAlways(S, F, channel, user_id, name, code) ==
    LET req == [channel |-> channel, user_id |-> Str(user_id), name |-> name,
                code |-> code]
        S1 == [S EXCEPT !.pending = Append(@, req)]
    IN [S |-> S1, F |-> _save(S1, F), result |-> req]

\* PairingStorage.add_pending; `code` is what generate_code returns if called
add_pending(S, F, channel, user_id, name, code) ==
    LET existing == get_pending_for_user(S, channel, user_id)
        req == [channel |-> channel, user_id |-> Str(user_id), name |-> name,
                code |-> code]
        S1 == [S EXCEPT !.pending = Append(@, req)]
    IN IF existing # None
       THEN [S |-> S, F |-> F, result |-> existing]
       ELSE [S |-> S1, F |-> _save(S1, F), result |-> req]

\* approve writing the file on both paths
ApproveAlwaysSaves(S, F, code) ==
    LET req == get_pending_by_code(S, code)
        user == [channel |-> req.channel, user_id |-> req.user_id,
                 name |-> req.name]
        S1 == [S EXCEPT
                 !.pending = SelectSeq(@, LAMBDA r : r.code # req.code),
                 !.authorized = Append(@, user)]
    IN IF req = None
       THEN [S |-> S, F |-> _save(S, F), result |-> None]
       ELSE [S |-> S1, F |-> _save(S1, F), result |-> user]

\* PairingStorage.approve
ApproveKeepsPendingOnly(S, F, code) ==
    LET req == get_pending_by_code(S, code)
        S1 == [S EXCEPT
                 !.pending = SelectSeq(@, LAMBDA r : r.code # req.code)]
    IN IF req = None
       THEN [S |-> S, F |-> F, result |-> None]
       ELSE [S |-> S1, F |-> _save(S1, F),
             result |-> [channel |-> req.channel, user_id |-> req.user_id,
                         name |-> req.name]]

approve(S, F, code) ==
    LET req == get_pending_by_code(S, code)
        user == [channel |-> req.channel, user_id |-> req.user_id,
                 name |-> req.name]
        S1 == [S EXCEPT
                 !.pending = SelectSeq(@, LAMBDA r : r.code # req.code),
                 !.authorized = Append(@, user)]
    IN IF req = None
       THEN [S |-> S, F |-> F, result |-> None]
       ELSE [S |-> S1, F |-> _save(S1, F), result |-> user]

\* PairingStorage.reject
reject(S, F, code) ==
    LET req == get_pending_by_code(S, code)
        S1 == [S EXCEPT
                 !.pending = SelectSeq(@, LAMBDA r : r.code # req.code)]
    IN IF req = None
       THEN [S |-> S, F |-> F, result |-> FALSE]
       ELSE [S |-> S1, F |-> _save(S1, F), result |-> TRUE]

\* PairingStorage.revoke
revoke(S, F, channel, user_id) ==
    LET S1 == [S EXCEPT
                 !.authorized =
                    SelectSeq(@, LAMBDA u : ~(u.channel = channel
                                              /\ u.user_id = Str(user_id)))]
    IN IF Len(S1.authorized) < Len(S.authorized)
       THEN [S |-> S1, F |-> _save(S1, F), result |-> TRUE]
       ELSE [S |-> S1, F |-> F, result |-> FALSE]

\* PairingStorage.add_authorized
add_authorized(S, F, channel, user_id, name) ==
    LET chk == is_authorized(S, F, channel, user_id)
        user == [channel |-> channel, user_id |-> Str(user_id), name |-> name]
        S1 == [chk.S EXCEPT !.authorized = Append(@, user)]
    IN IF chk.result
       THEN [S |-> chk.S, F |-> F,
             result |-> FirstWhere(chk.S.authorized,
                          LAMBDA u : u.channel = channel
                                     /\ u.user_id = Str(user_id))]
       ELSE [S |-> S1, F |-> _save(S1, F), result |-> user]

\* PairingPlugin.start, enabled: PairingStorage(path), then add_authorized
\* for every (channel, user_id) of owner_ids, in the order of the config.
RECURSIVE BootstrapOwners(_, _, _)
BootstrapOwners(S, F, owners) ==
    IF owners = <<>>
    THEN [S |-> S, F |-> F]
    ELSE LET o == Head(owners)
             r == add_authorized(S, F, o.channel, Str(o.user_id), "owner")
         IN BootstrapOwners(r.S, r.F, Tail(owners))

PluginStartNoBootstrap(F, owners) ==
    [S |-> _load(NewStorage, F), F |-> F]

PluginStart(F, owners) == BootstrapOwners(_load(NewStorage, F), F, owners)

(***************************************************************************)
(* State.                                                                  *)
(***************************************************************************)
VARIABLES
    hk,         \* SpecHook: the run_hook call under examination
    st,         \* SpecStore: the plugin's PairingStorage (None before start)
    pf,         \* SpecStore: the store file (pairing.yml)
    pcfg,       \* SpecStore: the pairing section of the configuration
    last,       \* SpecStore: the last storage call and what it returned
    approved,   \* SpecStore: users an approve returned, not revoked since
    nops,       \* SpecStore: storage calls made since start
    loop,       \* Spec: where Cobot.run_loop / poll stands
    task,       \* Spec: the handle_message tasks of the current poll cycle
    processed_events,   \* Spec: Cobot._processed_events
    restart_requested,  \* Spec: ToolsPlugin._restart_requested
    scn,        \* Spec: what is left of the run's budgets
    hist,       \* Spec: per message, what has happened to it so far
    hook_results,   \* Spec: what run(name, ctx) can return, per hook
    polled,     \* Spec: what the last Cobot.poll returned
    reg,        \* SpecRegistry: the PluginRegistry and the calls it has made
    cli,        \* SpecPairing: the `cobot pairing approve` process
    gate,       \* SpecPairing: the plugin's on_message_received in progress
    hot,        \* SpecPairing: users the CLI approved, and what came of it
    ses,        \* SpecSession: the channels and the last poll or send
    lk,         \* SpecLurker: the LurkerPlugin and its last hook call
    cf,         \* SpecConfig: cobot.yml and the last `cobot config` command
    rn          \* SpecRun: the `cobot run` processes and the PID file

hookVars == <<hk>>
storeVars == <<st, pf, pcfg, last, approved, nops>>
agentVars ==
    <<loop, task, processed_events, restart_requested, scn, hist,
      hook_results, polled>>
vars == <<hk, st, pf, pcfg, last, approved, nops,
          loop, task, processed_events, restart_requested, scn, hist,
          hook_results, polled, reg, cli, gate, hot, ses, lk, cf, rn>>

pairVars == <<cli, gate, hot>>

regVars == <<reg>>

RegUnused == reg = None

extVars == <<ses, lk, cf, rn>>

ExtUnused == ses = None /\ lk = None /\ cf = None /\ rn = None

PairUnused == cli = None /\ gate = None /\ hot = None

StoreUnused ==
    /\ st = None /\ pf = NoFile /\ pcfg = None /\ last = None
    /\ approved = {} /\ nops = 0

AgentUnused ==
    /\ loop = "unused" /\ task = <<>> /\ processed_events = None
    /\ restart_requested = FALSE /\ scn = None /\ hist = None
    /\ hook_results = None /\ polled = None

(***************************************************************************)
(* SpecHook: run_hook applied to every registry of HookPlugins plugins.    *)
(***************************************************************************)
HookIds == 1 .. HookPlugins

HookOrder == [i \in HookIds |-> i]

\* Names run_hook is called with: a hook of the pipeline, on_error itself,
\* and on_shutdown, which agent.py dispatches but HOOK_METHODS does not list.
HookNames == {"on_message_received", "on_error", "on_shutdown"}

ErrBehaviours == {"skip", "ok", "abort", "raise"}

HookBehs == [HookIds -> [hook : Behaviours, err : ErrBehaviours]]

HkIdle == [pc |-> "ready"]

InitHook ==
    hk = HkIdle /\ StoreUnused /\ AgentUnused /\ PairUnused /\ RegUnused /\ ExtUnused

HookCall ==
    /\ hk.pc = "ready"
    /\ \E beh \in HookBehs, name \in HookNames :
          \* called directly with on_error, the hook behaviour is the
          \* plugin's on_error behaviour
          /\ name = "on_error" => \A p \in HookIds : beh[p].hook = beh[p].err
          /\ hk' = [pc |-> "returned", name |-> name, beh |-> beh,
                    res |-> run_hook(HookOrder, beh, name)]
    /\ UNCHANGED <<storeVars, agentVars, pairVars, regVars, extVars>>

HookReturn ==
    /\ hk.pc = "returned"
    /\ hk' = HkIdle
    /\ UNCHANGED <<storeVars, agentVars, pairVars, regVars, extVars>>

NextHook == HookCall \/ HookReturn

SpecHook == InitHook /\ [][NextHook]_vars

(***************************************************************************)
(* SpecStore: one process.  PairingPlugin.start on whatever file is there, *)
(* then any sequence of calls on the plugin's PairingStorage.              *)
(***************************************************************************)
Owner == StrId("7")

Stranger == StrId("999")

PendingOf(uid, code) ==
    [channel |-> "telegram", user_id |-> uid, name |-> "n", code |-> code]

AuthOf(uid, name) == [channel |-> "telegram", user_id |-> uid, name |-> name]

YamlFile(authorized, pending) ==
    [exists |-> TRUE, content |-> "yaml", authorized |-> authorized,
     pending |-> pending, mtime |-> 1]

\* what pairing.yml can hold before start
InitialFiles ==
    { NoFile,
      [YamlFile(<<>>, <<>>) EXCEPT !.content = "garbage"],
      YamlFile(<<>>, <<>>),
      \* written by hand, the owner's id as a YAML integer
      YamlFile(<<AuthOf(IntId("7"), "owner")>>, <<>>),
      \* left by an earlier run
      YamlFile(<<AuthOf(Owner, "owner")>>, <<PendingOf(Stranger, "K1")>>) }

\* pairing.owner_ids, flattened in iteration order; YAML gives ids as
\* strings or integers
OwnerConfigs ==
    { <<>>,
      <<[channel |-> "telegram", user_id |-> IntId("7")]>>,
      <<[channel |-> "telegram", user_id |-> Owner],
        [channel |-> "nostr", user_id |-> StrId("8")]>> }

\* arguments of the storage calls
ApiIds == {Owner, Stranger, IntId("999")}

ApiCodes == {"K1", "K2", "k1"}

InitStore ==
    /\ hk = HkIdle
    /\ PairUnused /\ RegUnused /\ ExtUnused
    /\ st = None
    /\ pf \in InitialFiles
    /\ pcfg \in [enabled : BOOLEAN, owner_ids : OwnerConfigs]
    /\ last = None
    /\ approved = {}
    /\ nops = 0
    /\ AgentUnused

\* PairingPlugin.start
StoreStart ==
    /\ st = None /\ last = None
    /\ IF pcfg.enabled
       THEN LET r == PluginStart(pf, pcfg.owner_ids)
            IN st' = r.S /\ pf' = r.F
       ELSE UNCHANGED <<st, pf>>
    /\ last' = [op |-> "start"]
    /\ UNCHANGED <<pcfg, approved, nops, hookVars, agentVars, pairVars, regVars, extVars>>

StoreCall(op, arg, r) ==
    /\ st' = r.S
    /\ pf' = r.F
    /\ last' = [op |-> op, arg |-> arg, result |-> r.result]
    /\ nops' = nops + 1
    /\ UNCHANGED <<pcfg, hookVars, agentVars, pairVars, regVars, extVars>>

StoreReady == st # None /\ nops < MaxStoreOps

StoreIsAuthorized ==
    /\ StoreReady
    /\ \E uid \in ApiIds :
          StoreCall("is_authorized", uid, is_authorized(st, pf, "telegram", uid))
    /\ UNCHANGED approved

StoreAddPending ==
    /\ StoreReady
    /\ \E uid \in ApiIds, code \in Codes :
          StoreCall("add_pending", uid,
                    add_pending(st, pf, "telegram", uid, "n", code))
    /\ UNCHANGED approved

StoreApprove ==
    /\ StoreReady
    /\ \E code \in ApiCodes :
          LET r == approve(st, pf, code)
          IN /\ StoreCall("approve", code, r)
             /\ approved' =
                  IF r.result = None THEN approved
                  ELSE approved \cup
                         {[channel |-> r.result.channel,
                           user_id |-> r.result.user_id]}

StoreReject ==
    /\ StoreReady
    /\ \E code \in ApiCodes : StoreCall("reject", code, reject(st, pf, code))
    /\ UNCHANGED approved

StoreRevoke ==
    /\ StoreReady
    /\ \E uid \in ApiIds :
          /\ StoreCall("revoke", uid, revoke(st, pf, "telegram", uid))
          /\ approved' =
               approved \ {[channel |-> "telegram", user_id |-> Str(uid)]}

StoreAddAuthorized ==
    /\ StoreReady
    /\ \E uid \in ApiIds :
          StoreCall("add_authorized", uid,
                    add_authorized(st, pf, "telegram", uid, "owner"))
    /\ UNCHANGED approved

NextStore ==
    \/ StoreStart
    \/ StoreIsAuthorized
    \/ StoreAddPending
    \/ StoreApprove
    \/ StoreReject
    \/ StoreRevoke
    \/ StoreAddAuthorized

SpecStore == InitStore /\ [][NextStore]_vars

\* C9: for every approve(code) that returned a user, is_authorized(channel,
\* user_id) of that user is true on every later call, whatever add_pending,
\* approve, reject and add_authorized calls follow, until the user is revoked.
C9_ApprovedStaysAuthorized ==
    \A u \in approved : is_authorized(st, pf, u.channel, u.user_id).result

\* C9 witness: a user was approved and storage calls have followed.
C9_Witness ==
    /\ approved # {}
    /\ last # None /\ last.op \in {"add_pending", "add_authorized", "reject"}

\* C10: immediately after the pairing plugin's start (pairing enabled),
\* is_authorized is true for every (channel, user_id) of owner_ids, whatever
\* the store file held before.
C10_OwnersAuthorizedAfterStart ==
    (last # None /\ last.op = "start" /\ st # None) =>
        \A k \in 1 .. Len(pcfg.owner_ids) :
            is_authorized(st, pf, pcfg.owner_ids[k].channel,
                          pcfg.owner_ids[k].user_id).result

\* C10 witness: start has run with two owners configured, and both are in
\* the store.
C10_Witness ==
    /\ last # None /\ last.op = "start" /\ st # None
    /\ Len(pcfg.owner_ids) = 2
    /\ Len(st.authorized) = 2

(***************************************************************************)
(* agent.py: the orchestrator.                                             *)
(***************************************************************************)
\* respond: max_rounds
max_rounds == 10

\* handle_message: the dedup set is trimmed when it grows past DedupLimit,
\* and the trim drops DedupDrop entries
DedupLimit == 1000

DedupDrop == 500

\* The messages the channels deliver (IncomingMessage; content, timestamp and
\* media do not steer the orchestrator):
\*   1  the owner, in a telegram group;
\*   2  a stranger, in the same group;
\*   3  the same stranger on nostr, with the message id of message 1;
\*   4  a telegram message without from_user: TelegramMessage
\*      .to_incoming_message gives it the sender id "".
MsgIds == 1 .. 4

Msg(i) ==
    CASE i = 1 -> [id |-> "1", channel_type |-> "telegram",
                   channel_id |-> "-100", sender_id |-> Owner]
      [] i = 2 -> [id |-> "2", channel_type |-> "telegram",
                   channel_id |-> "-100", sender_id |-> Stranger]
      [] i = 3 -> [id |-> "1", channel_type |-> "nostr",
                   channel_id |-> "dm", sender_id |-> Stranger]
      [] OTHER -> [id |-> "4", channel_type |-> "telegram",
                   channel_id |-> "-100", sender_id |-> StrId("")]

\* handle_message: msg_key = f"{channel_type}:{channel_id}:{id}".  None of
\* the fields of the model holds a colon, so the joined string is the triple.
msg_key(m) == <<m.channel_type, m.channel_id, m.id>>

KeyOf(i) == msg_key(Msg(i))

(***************************************************************************)
(* Cobot._processed_events, a Python set of key strings.  Only the keys of *)
(* the messages above are tracked one by one (keys); the keys of the       *)
(* messages handled before the model starts are counted (fill): none of    *)
(* them is delivered again.                                                *)
(***************************************************************************)
DedupSize(pe) == pe.fill + Cardinality(pe.keys)

\* `if msg_key in self._processed_events: return`
Accepts(pe, key) == key \notin pe.keys

\* handle_message without the trim: the set only grows
InsertWithoutTrim(pe, key) == {[pe EXCEPT !.keys = @ \cup {key}]}

\* `self._processed_events.add(msg_key)` and the trim
\* `set(list(self._processed_events)[500:])`: a set has no insertion order,
\* list() yields the keys in hash order, so the slice drops DedupDrop keys
\* chosen by the hashes.  Every choice of the tracked keys among the dropped
\* ones is possible; the rest of the dropped keys are counted ones.
AfterInsert(pe, key) ==
    LET added == [pe EXCEPT !.keys = @ \cup {key}]
    IN IF DedupSize(added) > DedupLimit
       THEN { [fill |-> added.fill - (DedupDrop - Cardinality(D)),
               keys |-> added.keys \ D] :
                 D \in { X \in SUBSET added.keys :
                            /\ Cardinality(X) <= DedupDrop
                            /\ DedupDrop - Cardinality(X) <= added.fill } }
       ELSE {added}

(***************************************************************************)
(* The registry the orchestrator runs its hooks on: the pairing plugin     *)
(* between two plugins that can do anything a hook can do (pre stands for  *)
(* the plugins loaded before pairing, post for those after it).            *)
(***************************************************************************)
AgentOrder == <<"pre", "pairing", "post">>

AgentBeh(bpre, bpair, bpost) ==
    [p \in {"pre", "pairing", "post"} |->
        CASE p = "pre" -> [hook |-> bpre, err |-> "ok"]
          [] p = "pairing" -> [hook |-> bpair, err |-> "skip"]
          [] OTHER -> [hook |-> bpost, err |-> "ok"]]

\* run(hook_name, ctx) of plugins/__init__.py on that registry
run(name, bpre, bpair, bpost) ==
    run_hook(AgentOrder, AgentBeh(bpre, bpair, bpost), name)

PairingCalled(r) ==
    \E k \in 1 .. Len(r.calls) :
        r.calls[k].plugin = "pairing" /\ r.calls[k].depth = 0

\* What the orchestrator sees of run(name, ctx), over everything the plugins
\* around pairing can do: whether the chain reached pairing, and ctx["abort"]
AgentHooks == HOOK_METHODS \cup {"on_shutdown"}

ChainTable ==
    [name \in AgentHooks, bpair \in {"skip", "ok", "abort"} |->
       { LET r == run(name, bpre, bpair, bpost)
         IN [called |-> PairingCalled(r), abort |-> r.abort] :
            bpre \in Behaviours, bpost \in Behaviours }]

\* hook_results holds ChainTable, tabulated once by Init
Chains(name, bpair) == hook_results[name, bpair]

(***************************************************************************)
(* PairingPlugin.on_message_received for message m: what it does to the    *)
(* store, what it sends through communication.send, and how it returns.    *)
(* `code` is the code generate_code would return.                          *)
(***************************************************************************)
PairingPasses(S, F) == [S |-> S, F |-> F, beh |-> "ok", sends |-> <<>>]

HookAdmitsEveryone(cfg, S, F, m, code) == PairingPasses(S, F)

PairingHook(cfg, S, F, m, code) ==
    IF ~cfg.enabled \/ S = None THEN PairingPasses(S, F)
    ELSE IF m.channel_type = "" \/ Str(m.sender_id).v = ""
    THEN PairingPasses(S, F)
    ELSE IF m.channel_type \in cfg.skip_channels THEN PairingPasses(S, F)
    ELSE
      LET chk == is_authorized(S, F, m.channel_type, Str(m.sender_id))
      IN IF chk.result THEN PairingPasses(chk.S, chk.F)
         ELSE
           LET r == add_pending(chk.S, chk.F, m.channel_type,
                                Str(m.sender_id), "n", code)
           IN [S |-> r.S, F |-> r.F, beh |-> "abort",
               sends |-> << [by |-> "pairing",
                             channel_type |-> m.channel_type,
                             channel_id |-> m.channel_id,
                             code |-> r.result.code,
                             reply_to |-> None] >>]

(***************************************************************************)
(* Spec: the run loop.                                                     *)
(*                                                                         *)
(* loop is "sleep" between polls, "gather" while the tasks of a poll cycle *)
(* run, and "exec" once _do_restart has replaced the process image.  Each  *)
(* action of a task runs from one await to the next: a hook chain and the  *)
(* synchronous code after it.                                              *)
(***************************************************************************)
Tasks == DOMAIN task

\* A reply text: where it comes from (the content of the LLM response of
\* round `round`, a hook, the placeholder of respond, the "Error: ..." string,
\* an abort message) and whether text.strip() is empty
NoText == [src |-> "none", round |-> 0, blank |-> FALSE]

NewTask(i) ==
    [msg |-> i, pc |-> "new", hooks |-> <<>>, sends |-> <<>>, typing |-> 0,
     llm_calls |-> 0, round |-> 0, reply |-> "none", tool |-> "none",
     content |-> "none", text |-> NoText, send_ok |-> "none",
     omr |-> None, outcome |-> "running",
     assistant_turns |-> 0, tool_turns |-> 0, blocked |-> FALSE,
     result |-> "none", last_turn |-> None, shutdown |-> None]

Hist0 == [accepted |-> 0, omr_runs |-> 0, evictions |-> 0]

Batches(n) ==
    UNION { [1 .. k -> MsgIds] : k \in 0 .. n }

Min(a, b) == IF a < b THEN a ELSE b

\* The budgets of a run of Spec
SpecBudgets ==
    [dispatches |-> MaxDispatches, tool_replies |-> MaxToolReplies,
     blanks |-> 0, poll_failures |-> MaxPollFailures]

AgentStart(budgets, fills) ==
    /\ hk = HkIdle
    /\ PairUnused /\ RegUnused /\ ExtUnused
    /\ last = None /\ approved = {} /\ nops = 0
    /\ pcfg = [enabled |-> TRUE,
               owner_ids |-> <<[channel |-> "telegram", user_id |-> Owner]>>,
               skip_channels |-> {"nostr"}]
    /\ LET r == PluginStart(NoFile, pcfg.owner_ids)
       IN st = r.S /\ pf = r.F
    /\ loop = "sleep"
    /\ task = <<>>
    /\ processed_events \in { [fill |-> n, keys |-> {}] : n \in fills }
    /\ restart_requested = FALSE
    /\ scn = budgets
    /\ hist = [i \in MsgIds |-> Hist0]
    /\ hook_results = ChainTable
    /\ polled = None

InitAgent == AgentStart(SpecBudgets, {0, DedupLimit})

\* Cobot.poll: comm.poll() returned `b`; every message becomes a task of
\* asyncio.gather
Poll ==
    /\ loop = "sleep"
    /\ scn.dispatches > 0
    /\ \E b \in Batches(Min(MaxBatch, scn.dispatches)) :
          /\ b # <<>>
          /\ task' = [t \in DOMAIN b |-> NewTask(b[t])]
          /\ scn' = [scn EXCEPT !.dispatches = @ - Len(b)]
    /\ loop' = "gather"
    /\ UNCHANGED <<processed_events, restart_requested, hist, st, pf, pcfg,
                   last, approved, nops, hookVars, hook_results, polled,
                   pairVars, regVars, extVars>>

\* Cobot.poll: `except Exception as e`: `await run("on_error", {"error": e,
\* "hook": "poll"})` and `return 0`
PollPropagates == [on_error |-> FALSE, result |-> 0, raised |-> TRUE]

OnPollException == [on_error |-> TRUE, result |-> 0, raised |-> FALSE]

\* Cobot.poll when comm.poll() raises: no message is dispatched.  An
\* exception that left poll would leave run_loop too, which catches only
\* CancelledError and KeyboardInterrupt.
PollFails ==
    /\ loop = "sleep"
    /\ scn.poll_failures > 0
    /\ scn' = [scn EXCEPT !.poll_failures = @ - 1]
    /\ \E r \in Chains("on_error", "skip") :
          polled' = [result |-> OnPollException.result,
                     on_error |-> OnPollException.on_error,
                     raised |-> OnPollException.raised,
                     messages |-> 0, outcomes |-> <<>>]
    /\ loop' = IF OnPollException.raised THEN "crashed" ELSE "sleep"
    /\ UNCHANGED <<task, processed_events, restart_requested, hist, st, pf,
                   pcfg, last, approved, nops, hookVars, hook_results,
                   pairVars, regVars, extVars>>

\* asyncio.gather(..., return_exceptions=True) returns once every task has
\* finished, the exception of a task being its result; poll returns
\* len(messages) and run_loop sleeps
GatherReturns ==
    /\ loop = "gather"
    /\ \A t \in Tasks : task[t].pc = "done"
    /\ loop' = "sleep"
    /\ polled' = [result |-> Len(task), on_error |-> FALSE, raised |-> FALSE,
                  messages |-> Len(task),
                  outcomes |-> [t \in Tasks |-> task[t].outcome]]
    /\ task' = <<>>
    /\ UNCHANGED <<processed_events, restart_requested, scn, hist, st, pf,
                   pcfg, last, approved, nops, hookVars, hook_results,
                   pairVars, regVars, extVars>>

Running(t) == loop = "gather" /\ t \in Tasks

Finish(t, outcome) ==
    [task[t] EXCEPT !.pc = "done", !.outcome = outcome]

Fired(t, name) == [task[t] EXCEPT !.hooks = Append(@, name)]

AgentKeeps ==
    UNCHANGED <<loop, scn, pcfg, last, approved, nops, hookVars, hook_results,
                   polled,
                   pairVars, regVars, extVars>>

\* handle_message up to its first await: the dedup test, the insertion and
\* the trim.  gather starts the tasks in the order of the list.
StartHandle(t) ==
    /\ Running(t)
    /\ task[t].pc = "new"
    /\ \A u \in Tasks : u < t => task[u].pc # "new"
    /\ LET i == task[t].msg
       IN IF ~Accepts(processed_events, KeyOf(i))
          THEN /\ task' = [task EXCEPT ![t] = Finish(t, "duplicate")]
               /\ UNCHANGED <<processed_events, hist>>
          ELSE \E pe \in AfterInsert(processed_events, KeyOf(i)) :
                 /\ processed_events' = pe
                 /\ task' = [task EXCEPT ![t].pc = "omr"]
                 /\ hist' =
                      [j \in MsgIds |->
                         [hist[j] EXCEPT
                            !.accepted = IF j = i THEN @ + 1 ELSE @,
                            !.evictions =
                               IF KeyOf(j) \in (processed_events.keys
                                                  \cup {KeyOf(i)}) \ pe.keys
                               THEN @ + 1 ELSE @]]
    /\ UNCHANGED <<restart_requested, st, pf>>
    /\ AgentKeeps

\* `if ctx.get("abort"): return` after on_message_received
ReceivedNeverAborts(r) == FALSE

ReceivedAborts(r) == r.abort

\* The OutgoingMessage of handle_message
ReplyWithoutTarget(m) ==
    [by |-> "agent", channel_type |-> m.channel_type,
     channel_id |-> m.channel_id, code |-> None, reply_to |-> ""]

Reply(m) ==
    [by |-> "agent", channel_type |-> m.channel_type,
     channel_id |-> m.channel_id, code |-> None, reply_to |-> m.id]

\* handle_message: `await run("on_message_received", ...)`, the abort test
\* and comm.typing.  The pairing plugin acts only if the chain reaches it.
MessageReceived(t) ==
    /\ Running(t)
    /\ task[t].pc = "omr"
    /\ LET i == task[t].msg
           m == Msg(i)
       IN \E code \in Codes :
            LET ph == PairingHook(pcfg, st, pf, m, code)
            IN \E r \in Chains("on_message_received", ph.beh) :
                 LET called == r.called
                     seen == [called |-> called,
                              abort |-> r.abort,
                              unauthorized |->
                                 ~InAuthorized(st, m.channel_type,
                                               Str(m.sender_id)),
                              pairing_abort |-> called /\ SetsAbort(ph.beh)]
                     t1 == [Fired(t, "on_message_received") EXCEPT
                              !.omr = seen,
                              !.sends = IF called THEN @ \o ph.sends ELSE @]
                 IN /\ st' = IF called THEN ph.S ELSE st
                    /\ pf' = IF called THEN ph.F ELSE pf
                    /\ hist' = [hist EXCEPT ![i].omr_runs = @ + 1]
                    /\ task' =
                         [task EXCEPT ![t] =
                            IF ReceivedAborts(r)
                            THEN [t1 EXCEPT !.pc = "done",
                                            !.outcome = "aborted"]
                            ELSE [t1 EXCEPT !.pc = "tsp",
                                            !.typing = @ + 1]]
    /\ UNCHANGED <<processed_events, restart_requested>>
    /\ AgentKeeps

AgentStep(t, pc) ==
    /\ Running(t)
    /\ task[t].pc = pc
    /\ UNCHANGED <<processed_events, st, pf, hist>>
    /\ UNCHANGED <<loop, pcfg, last, approved, nops, hookVars, hook_results,
                   polled,
                   pairVars, regVars, extVars>>

\* respond: `await run("transform_system_prompt", ...)`
TransformSystemPrompt(t) ==
    /\ AgentStep(t, "tsp")
    /\ \E r \in Chains("transform_system_prompt", "skip") :
          task' = [task EXCEPT ![t] =
                     [Fired(t, "transform_system_prompt") EXCEPT
                        !.pc = "th"]]
    /\ UNCHANGED <<restart_requested, scn>>

\* respond: `await run("transform_history", ...)` and the code up to the loop
TransformHistory(t) ==
    /\ AgentStep(t, "th")
    /\ \E r \in Chains("transform_history", "skip") :
          task' = [task EXCEPT ![t] =
                     [Fired(t, "transform_history") EXCEPT
                        !.pc = "bllm", !.round = 0]]
    /\ UNCHANGED <<restart_requested, scn>>

\* What llm.chat can do: answer, answer with tool calls, raise LLMError,
\* raise anything else
LLMResults(budget) ==
    {"text", "LLMError", "Exception"} \cup
    (IF budget > 0 THEN {"restart_self", "exec", "bad_json"} ELSE {})

LLMRaises(res) == res \in {"LLMError", "Exception"}

\* Whether a text an LLM or a plugin supplies is blank, while the run's
\* budget of blank texts lasts
Blanks(budget) == IF budget > 0 THEN {FALSE, TRUE} ELSE {FALSE}

Spend(s, blank) == IF blank THEN [s EXCEPT !.blanks = @ - 1] ELSE s

\* What a hook chain does to ctx["text"]: nothing, or a plugin replaces it
Edits(budget) ==
    IF budget > 0 THEN {"keep", "blank", "words"} ELSE {"keep"}

Edited(text, e) ==
    CASE e = "keep" -> text
      [] e = "blank" -> [src |-> "hook", round |-> 0, blank |-> TRUE]
      [] OTHER -> [src |-> "hook", round |-> 0, blank |-> FALSE]

\* respond: `except LLMError as e` around the loop
CatchesNothing(res) == FALSE

Caught(res) == res = "LLMError"

\* respond: `for _ in range(max_rounds)`: whether another pass follows the
\* pass numbered `round` (from 0)
AlwaysMoreRounds(round) == TRUE

MoreRounds(round) == round + 1 < max_rounds

\* respond: `if not final_text.strip(): final_text = "(No response ...)"`
Placeholder == [src |-> "placeholder", round |-> 0, blank |-> FALSE]

FinalText(text) == IF text.blank THEN Placeholder ELSE text

\* respond: one pass of `for _ in range(max_rounds)` up to the next await:
\* `await run("on_before_llm_call", ...)`, the abort test, and llm.chat
BeforeLLMCall(t) ==
    /\ AgentStep(t, "bllm")
    /\ \E r \in Chains("on_before_llm_call", "skip") :
         LET t1 == Fired(t, "on_before_llm_call")
         IN IF r.abort
            THEN \E blank \in Blanks(scn.blanks) :
                   /\ task' = [task EXCEPT ![t] =
                         [t1 EXCEPT !.pc = "bsend",
                                    !.text = [src |-> "abort", round |-> 0,
                                              blank |-> blank]]]
                   /\ scn' = Spend(scn, blank)
            ELSE \E res \in LLMResults(scn.tool_replies),
                    blank \in Blanks(scn.blanks) :
                   LET t2 == [t1 EXCEPT
                                !.llm_calls = @ + 1, !.reply = res,
                                !.content = IF LLMRaises(res) THEN "none"
                                            ELSE IF blank THEN "blank"
                                            ELSE "words"]
                   IN /\ LLMRaises(res) => ~blank
                      /\ scn' = [Spend(scn, blank) EXCEPT !.tool_replies =
                                   IF res \in {"restart_self", "exec",
                                               "bad_json"}
                                   THEN @ - 1 ELSE @]
                      /\ task' = [task EXCEPT ![t] =
                           CASE Caught(res) -> [t2 EXCEPT !.pc = "llmerr"]
                             [] LLMRaises(res) ->
                                  [t2 EXCEPT !.pc = "done",
                                             !.outcome = "raised"]
                             [] OTHER -> [t2 EXCEPT !.pc = "allm"]]
    /\ UNCHANGED restart_requested

\* respond: `messages.append({"role": "assistant", ...})`.  Of `messages`
\* the model keeps how many turns of either role the loop has appended and
\* the last one; a tool call is identified by the round of its response.
AppendAssistant(tk) ==
    [tk EXCEPT !.assistant_turns = @ + 1,
               !.last_turn = [role |-> "assistant",
                              call |-> tk.assistant_turns + 1,
                              content |-> "none"]]

\* respond: `messages.append({"role": "tool", "tool_call_id": tool_id,
\* "content": result})`
AppendTool(tk) ==
    [tk EXCEPT !.tool_turns = @ + 1,
               !.last_turn = [role |-> "tool", call |-> tk.assistant_turns,
                              content |-> tk.result]]

\* respond: `await run("on_after_llm_call", ...)`; without tool calls the
\* loop is left, with one the assistant turn is appended and the arguments
\* are parsed (json.loads)
AfterLLMCall(t) ==
    /\ AgentStep(t, "allm")
    /\ \E r \in Chains("on_after_llm_call", "skip") :
         LET t1 == Fired(t, "on_after_llm_call")
         IN task' = [task EXCEPT ![t] =
              CASE task[t].reply = "text" -> [t1 EXCEPT !.pc = "tresp"]
                [] task[t].reply = "bad_json" ->
                     [AppendAssistant(t1) EXCEPT
                        !.pc = "done", !.outcome = "raised"]
                [] OTHER -> [AppendAssistant(t1) EXCEPT
                               !.pc = "btool", !.tool = task[t].reply]]
    /\ UNCHANGED <<restart_requested, scn>>

\* respond: `await run("on_before_tool_exec", ...)`, then
\* `result = ctx.get("abort_message", "Blocked.")` on an abort and
\* tools.execute otherwise, which absorbs what the tool raises; restart_self
\* sets ToolsPlugin._restart_requested
BeforeToolExec(t) ==
    /\ AgentStep(t, "btool")
    /\ \E r \in Chains("on_before_tool_exec", "skip") :
         /\ task' = [task EXCEPT ![t] =
                       [Fired(t, "on_before_tool_exec") EXCEPT
                          !.pc = "atool",
                          !.blocked = r.abort,
                          !.result = IF r.abort THEN "abort_message"
                                     ELSE "executed"]]
         /\ restart_requested' =
               IF ~r.abort /\ task[t].tool = "restart_self"
               THEN TRUE ELSE restart_requested
    /\ UNCHANGED scn

\* respond: `await run("on_after_tool_exec", ...)`, the tool turn, the end
\* of the pass and the range(max_rounds) test
AfterToolExec(t) ==
    /\ AgentStep(t, "atool")
    /\ \E r \in Chains("on_after_tool_exec", "skip") :
         task' = [task EXCEPT ![t] =
                    [AppendTool(Fired(t, "on_after_tool_exec")) EXCEPT
                       !.round = @ + 1,
                       !.pc = IF MoreRounds(task[t].round)
                              THEN "bllm" ELSE "tresp"]]
    /\ UNCHANGED <<restart_requested, scn>>

\* respond: `await run("transform_response", ...)` on the content of the
\* last response, the placeholder and the return
TransformResponse(t) ==
    /\ AgentStep(t, "tresp")
    /\ \E r \in Chains("transform_response", "skip"),
          e \in Edits(scn.blanks) :
          LET content == [src |-> "llm", round |-> task[t].llm_calls,
                          blank |-> task[t].content = "blank"]
          IN /\ task' = [task EXCEPT ![t] =
                        [Fired(t, "transform_response") EXCEPT
                           !.pc = "bsend",
                           !.text = FinalText(Edited(content, e))]]
             /\ scn' = Spend(scn, e = "blank")
    /\ UNCHANGED restart_requested

\* respond: `return f"Error: {e}"`
ErrorText == [src |-> "error", round |-> 0, blank |-> FALSE]

\* respond: `except LLMError`: `await run("on_error", ...)` and the return
LLMErrorHook(t) ==
    /\ AgentStep(t, "llmerr")
    /\ \E r \in Chains("on_error", "skip") :
          task' = [task EXCEPT ![t] =
                     [Fired(t, "on_error:llm_call") EXCEPT
                        !.pc = "bsend",
                        !.text = ErrorText]]
    /\ UNCHANGED <<restart_requested, scn>>

\* handle_message: `if success: ... on_after_send ... else: ... on_error`
AlwaysAfterSend(success) == "asend"

FollowUp(success) == IF success THEN "asend" ELSE "senderr"

\* handle_message: `await run("on_before_send", ...)`, the abort test (a
\* plain return), `response_text = ctx.get("text", response_text)` and
\* comm.send, which returns whether a channel took the message
BeforeSend(t) ==
    /\ AgentStep(t, "bsend")
    /\ \E r \in Chains("on_before_send", "skip") :
         LET t1 == Fired(t, "on_before_send")
         IN IF r.abort
            THEN /\ task' = [task EXCEPT ![t] =
                               [t1 EXCEPT !.pc = "done",
                                          !.outcome = "aborted"]]
                 /\ UNCHANGED scn
            ELSE \E success \in BOOLEAN, e \in Edits(scn.blanks) :
                   /\ task' = [task EXCEPT ![t] =
                        [t1 EXCEPT
                           !.text = Edited(@, e),
                           !.sends = Append(@, Reply(Msg(task[t].msg))),
                           !.send_ok = IF success THEN "yes" ELSE "no",
                           !.pc = FollowUp(success)]]
                   /\ scn' = Spend(scn, e = "blank")
    /\ UNCHANGED restart_requested

\* handle_message: `if tools and tools.restart_requested`
AfterLastHook(tk, outcome) ==
    IF restart_requested
    THEN [tk EXCEPT !.pc = "restart", !.outcome = outcome]
    ELSE [tk EXCEPT !.pc = "done", !.outcome = outcome]

\* handle_message: `await run("on_after_send", ...)` and the restart test
AfterSend(t) ==
    /\ AgentStep(t, "asend")
    /\ \E r \in Chains("on_after_send", "skip") :
          task' = [task EXCEPT ![t] =
                     AfterLastHook(Fired(t, "on_after_send"), "sent")]
    /\ UNCHANGED <<restart_requested, scn>>

\* handle_message: `await run("on_error", {"hook": "send"})` and the restart
\* test
SendErrorHook(t) ==
    /\ AgentStep(t, "senderr")
    /\ \E r \in Chains("on_error", "skip") :
          task' = [task EXCEPT ![t] =
                     AfterLastHook(Fired(t, "on_error:send"), "send_failed")]
    /\ UNCHANGED <<restart_requested, scn>>

\* _do_restart: what run("on_shutdown", {"reason": "restart_requested"})
\* does on the registry, over every way the plugins around pairing can
\* define on_shutdown (pairing defines none): the plugins that override
\* the method, and the plugins run_hook called
ShutdownDeliveries ==
    { LET r == run("on_shutdown", bpre, "skip", bpost)
      IN [implementers |->
             { p \in {"pre", "post"} :
                  (IF p = "pre" THEN bpre ELSE bpost) # "skip" },
          delivered |-> { r.calls[k].plugin : k \in DOMAIN r.calls }] :
      bpre \in Behaviours, bpost \in Behaviours }

\* _do_restart: `await run("on_shutdown", ...)`
DoRestartShutdown(t) ==
    /\ AgentStep(t, "restart")
    /\ \E r \in Chains("on_shutdown", "skip"), d \in ShutdownDeliveries :
          task' = [task EXCEPT ![t].pc = "stop_all", ![t].shutdown = d]
    /\ UNCHANGED <<restart_requested, scn>>

\* _do_restart: `await self.registry.stop_all()`, then systemctl restart or
\* os.execv: the process image is replaced, with every task that has not
\* finished
DoRestartExec(t) ==
    /\ Running(t)
    /\ task[t].pc = "stop_all"
    /\ loop' = "exec"
    /\ task' = [task EXCEPT ![t].pc = "done"]
    /\ UNCHANGED <<processed_events, restart_requested, scn, hist, st, pf,
                   pcfg, last, approved, nops, hookVars, hook_results,
                   polled,
                   pairVars, regVars, extVars>>

Next ==
    \/ Poll
    \/ PollFails
    \/ GatherReturns
    \/ \E t \in Tasks :
         \/ StartHandle(t)
         \/ MessageReceived(t)
         \/ TransformSystemPrompt(t)
         \/ TransformHistory(t)
         \/ BeforeLLMCall(t)
         \/ AfterLLMCall(t)
         \/ BeforeToolExec(t)
         \/ AfterToolExec(t)
         \/ TransformResponse(t)
         \/ LLMErrorHook(t)
         \/ BeforeSend(t)
         \/ AfterSend(t)
         \/ SendErrorHook(t)
         \/ DoRestartShutdown(t)
         \/ DoRestartExec(t)

Spec == InitAgent /\ [][Next]_vars

(***************************************************************************)
(* SpecRespond: one message through handle_message and respond, with an    *)
(* LLM that can ask for a tool in every round and with blank texts.  The   *)
(* event loop runs every coroutine that is ready, and hooks, the LLM and   *)
(* the tools return: the steps of Next are taken as long as one is enabled.*)
(***************************************************************************)
RespondBudgets ==
    [dispatches |-> 1, tool_replies |-> max_rounds + 1,
     blanks |-> MaxBlankTexts, poll_failures |-> MaxPollFailures]

InitRespond == AgentStart(RespondBudgets, {0})

SpecRespond == InitRespond /\ [][Next]_vars /\ WF_vars(Next)

(***************************************************************************)
(* SpecPairing: two processes on one pairing.yml.  The agent's pairing     *)
(* plugin handles incoming messages with its PairingStorage; the operator  *)
(* runs `cobot pairing approve <code>`, which builds a PairingStorage of   *)
(* its own on the same path.  Nothing orders the file operations of the    *)
(* two processes, so each action is one process's code from one file       *)
(* operation to its next.                                                  *)
(***************************************************************************)
Other == StrId("555")

GateUsers == {Stranger, Other}

InitPairing ==
    /\ hk = HkIdle
    /\ AgentUnused /\ RegUnused /\ ExtUnused
    /\ last = None /\ approved = {} /\ nops = 0
    /\ pcfg = [enabled |-> TRUE,
               owner_ids |-> <<[channel |-> "telegram", user_id |-> Owner]>>,
               skip_channels |-> {"nostr"}]
    /\ \E f \in { NoFile,
                  YamlFile(<<AuthOf(Owner, "owner")>>,
                           <<PendingOf(Stranger, "K1")>>) } :
          LET r == PluginStart(f, pcfg.owner_ids)
          IN st = r.S /\ pf = r.F
    /\ cli = [pc |-> "idle", S |-> None, code |-> None, user |-> None,
              runs |-> 0]
    /\ gate = [pc |-> "idle", user |-> None, msgs |-> 0]
    /\ hot = [approved |-> {}, denied |-> {}]

PairKeeps ==
    UNCHANGED <<pcfg, last, approved, nops, hookVars, agentVars, regVars, extVars>>

\* PairingPlugin.on_message_received for a telegram message of user u, up to
\* the answer of is_authorized (which stats the file and may read it)
GateCheck(u) ==
    /\ gate.pc = "idle"
    /\ gate.msgs < MaxGateMsgs
    /\ LET chk == is_authorized(st, pf, "telegram", u)
       IN /\ st' = chk.S
          /\ gate' = IF chk.result
                     THEN [gate EXCEPT !.msgs = @ + 1]
                     ELSE [gate EXCEPT !.pc = "add_pending", !.user = u]
          /\ hot' = IF u \in hot.approved /\ ~chk.result
                    THEN [hot EXCEPT !.denied = @ \cup {u}]
                    ELSE hot
    /\ UNCHANGED <<pf, cli>>
    /\ PairKeeps

\* The hook goes on with add_pending.  For a user with a pending request
\* nothing is written and the hook ends (pairing message, ctx["abort"] =
\* True); for a new request _save opens the file for writing.
GateAddPending ==
    /\ gate.pc = "add_pending"
    /\ \E code \in Codes :
          LET r == add_pending(st, pf, "telegram", gate.user, "n", code)
          IN /\ st' = r.S
             /\ IF r.F = pf
                THEN /\ pf' = pf
                     /\ gate' = [gate EXCEPT !.pc = "idle", !.user = None,
                                             !.msgs = @ + 1]
                ELSE /\ pf' = Truncated(pf)
                     /\ gate' = [gate EXCEPT !.pc = "writing"]
    /\ UNCHANGED <<cli, hot>>
    /\ PairKeeps

\* _save of the agent's add_pending: the lists reach the file; then the
\* pairing message and ctx["abort"] = True
GateWrite ==
    /\ gate.pc = "writing"
    /\ \E same_tick \in BOOLEAN : pf' = Flushed(st, pf, same_tick)
    /\ gate' = [gate EXCEPT !.pc = "idle", !.user = None, !.msgs = @ + 1]
    /\ UNCHANGED <<st, cli, hot>>
    /\ PairKeeps

\* pairing_approve: `storage = PairingStorage(self._storage_path)` reads the
\* file
CliLoad ==
    /\ cli.pc = "idle"
    /\ cli.runs < MaxCliRuns
    /\ \E code \in ApiCodes :
          cli' = [cli EXCEPT !.pc = "loaded", !.code = code,
                             !.S = _load(NewStorage, pf)]
    /\ UNCHANGED <<st, pf, gate, hot>>
    /\ PairKeeps

\* pairing_approve: `storage.approve(code)` on what was read.  A code that
\* is not found ends the process; for one that is found _save opens the file
\* for writing.
CliApprove ==
    /\ cli.pc = "loaded"
    /\ LET r == approve(cli.S, pf, cli.code)
       IN IF r.result = None
          THEN /\ pf' = pf
               /\ cli' = [cli EXCEPT !.pc = "idle", !.S = None,
                                     !.code = None, !.runs = @ + 1]
          ELSE /\ pf' = Truncated(pf)
               /\ cli' = [cli EXCEPT !.pc = "writing", !.S = r.S,
                                     !.user = r.result.user_id]
    /\ UNCHANGED <<st, gate, hot>>
    /\ PairKeeps

\* _save of the CLI's approve: the lists reach the file, approve returns the
\* user and the process ends
CliWrite ==
    /\ cli.pc = "writing"
    /\ \E same_tick \in BOOLEAN : pf' = Flushed(cli.S, pf, same_tick)
    /\ hot' = [hot EXCEPT !.approved = @ \cup {cli.user}]
    /\ cli' = [cli EXCEPT !.pc = "idle", !.S = None, !.code = None,
                          !.user = None, !.runs = @ + 1]
    /\ UNCHANGED <<st, gate>>
    /\ PairKeeps

NextPairing ==
    \/ \E u \in GateUsers : GateCheck(u)
    \/ GateAddPending
    \/ GateWrite
    \/ CliLoad
    \/ CliApprove
    \/ CliWrite

SpecPairing == InitPairing /\ [][NextPairing]_vars

(***************************************************************************)
(* Views of a finished run_hook call.                                      *)
(***************************************************************************)
HkReturned == hk.pc = "returned"

\* the hook methods invoked by the chain run_hook was called for
HkChainCalls == SelectSeq(hk.res.calls, LAMBDA c : c.depth = 0)

HkBeh(p) == IF hk.name = "on_error" THEN hk.beh[p].err ELSE hk.beh[p].hook

HkCalled(p) == \E k \in 1 .. Len(HkChainCalls) : HkChainCalls[k].plugin = p

\* the plugins of the chain whose hook raised, in the order they were invoked
HkFailures ==
    LET failed == SelectSeq(HkChainCalls, LAMBDA c : Raises(HkBeh(c.plugin)))
    IN [k \in 1 .. Len(failed) |->
            [hook |-> hk.name, plugin |-> failed[k].plugin]]

\* C3 (as claimed): in run_hook, once the context carries abort no further
\* plugin's hook is invoked in that chain, however the abort was set; and the
\* context run_hook returns still carries it.
C3_NoHookAfterAbort ==
    HkReturned =>
        /\ \A k \in 1 .. Len(hk.res.calls) : ~hk.res.calls[k].abortAtEntry
        /\ (\E p \in HookIds : HkCalled(p) /\ SetsAbort(HkBeh(p)))
               => hk.res.abort

\* C4: if a plugin's hook raises during run_hook(name, ctx), name # on_error,
\* run_hook does not raise, on_error is dispatched exactly once per failing
\* hook with that hook's name and the failing plugin's id, and the chain goes
\* on: the calls are made in load order and the next plugin that overrides
\* the hook is invoked after the failing one.
C4_ExceptionAbsorbed ==
    (HkReturned /\ hk.name \in HOOK_METHODS \ {"on_error"}) =>
        /\ ~hk.res.raised
        /\ hk.res.errors = HkFailures
        /\ \A k \in 1 .. Len(HkChainCalls) - 1 :
               HkChainCalls[k].plugin < HkChainCalls[k + 1].plugin
        /\ \A p \in HookIds :
               (HkCalled(p) /\ Raises(HkBeh(p))) =>
                   \A q \in HookIds :
                       ( /\ q > p
                         /\ HkBeh(q) # "skip"
                         /\ \A r \in HookIds :
                                (p < r /\ r < q) => HkBeh(r) = "skip" )
                       => HkCalled(q)

\* C4 witness: the first plugin's hook raised, on_error was dispatched for it
\* and the two plugins after it were still invoked.
C4_Witness ==
    /\ HkReturned
    /\ hk.name = "on_message_received"
    /\ hk.beh[1].hook = "raise"
    /\ Len(hk.res.errors) = 1
    /\ HkCalled(2) /\ HkCalled(HookPlugins)

(***************************************************************************)
(* Views of the handle_message tasks.                                      *)
(***************************************************************************)
Range(seq) == { seq[k] : k \in 1 .. Len(seq) }

TaskMsg(t) == Msg(task[t].msg)

AgentSends(t) == SelectSeq(task[t].sends, LAMBDA o : o.by = "agent")

PairingSends(t) == SelectSeq(task[t].sends, LAMBDA o : o.by = "pairing")

IsPrefix(a, b) == Len(a) <= Len(b) /\ a = SubSeq(b, 1, Len(a))

\* the hooks of a message nobody aborts and that needs no tool
PlainOrder ==
    <<"on_message_received", "transform_system_prompt", "transform_history",
      "on_before_llm_call", "on_after_llm_call", "transform_response",
      "on_before_send", "on_after_send">>

\* on_message_received has returned for task t
Received(t) == task[t].omr # None

\* C1 (as claimed): a message whose dedup key handle_message has accepted
\* never gets a second on_message_received run, whatever is delivered later
\* in the life of the process.
C1_NoSecondRun ==
    \A i \in MsgIds : hist[i].omr_runs <= 1

\* C2 (as claimed): every message of a poll cycle is handled by the end of
\* the cycle, whatever its siblings do; here for the cycle that ends with a
\* restart one of the messages asked for.
C2_EachMessageHandledOnce ==
    loop = "exec" => \A t \in Tasks : task[t].outcome # "running"

\* C5: for a message that on_message_received, on_before_llm_call and
\* on_before_send do not abort, whose first LLM reply has no tool calls and
\* whose send the channel accepts, the hooks fire in the order
\* on_message_received, transform_system_prompt, transform_history,
\* on_before_llm_call, on_after_llm_call, transform_response, on_before_send,
\* on_after_send; the orchestrator sends exactly once, to the message's
\* channel_type and channel_id with reply_to the message id; nothing is sent
\* before on_before_send and on_after_send fires only after the send.
C5_HookOrderAndOneSend ==
    \A t \in Tasks :
        ( /\ task[t].reply = "text"
          /\ task[t].round = 0
          /\ task[t].outcome \notin {"aborted", "send_failed"}
          /\ task[t].pc # "senderr" ) =>
            /\ IsPrefix(task[t].hooks, PlainOrder)
            /\ task[t].llm_calls = 1
            /\ task[t].outcome = "sent" => task[t].hooks = PlainOrder
            /\ "on_before_send" \notin Range(task[t].hooks)
                  => task[t].sends = <<>>
            /\ "on_after_send" \in Range(task[t].hooks) =>
                  task[t].sends =
                     << [by |-> "agent",
                         channel_type |-> TaskMsg(t).channel_type,
                         channel_id |-> TaskMsg(t).channel_id,
                         code |-> None,
                         reply_to |-> TaskMsg(t).id] >>
            /\ Len(task[t].sends) <= 1

\* C5 witness: a message went through the eight hooks and was answered.
C5_Witness ==
    \E t \in Tasks :
        /\ task[t].outcome = "sent"
        /\ task[t].reply = "text" /\ task[t].round = 0
        /\ task[t].hooks = PlainOrder
        /\ Len(AgentSends(t)) = 1

\* C6: if the on_message_received chain returns a context with abort set,
\* handle_message has returned: no typing indicator was requested, no LLM
\* call made, no later hook run and nothing sent by the orchestrator.
C6_AbortOnReceiveReturns ==
    \A t \in Tasks :
        (Received(t) /\ task[t].omr.abort) =>
            /\ task[t].pc = "done"
            /\ task[t].typing = 0
            /\ task[t].llm_calls = 0
            /\ task[t].hooks = <<"on_message_received">>
            /\ AgentSends(t) = <<>>

\* C6 witness: a plugin other than pairing aborted the message of the owner.
C6_Witness ==
    \E t \in Tasks :
        /\ Received(t) /\ task[t].omr.abort
        /\ ~task[t].omr.unauthorized
        /\ task[t].pc = "done"

C8_HotApprovalSurvives ==
    /\ hot.denied = {}
    /\ \A u \in hot.approved : InAuthorized(pf, "telegram", u)


(***************************************************************************)
(* respond, under SpecRespond.                                             *)
(***************************************************************************)
\* The replies of the LLM that carry a tool call
ToolCalls == {"restart_self", "exec", "bad_json"}

RespondPcs == {"tsp", "th", "bllm", "allm", "btool", "atool", "tresp",
               "llmerr"}

InRespond == \E t \in Tasks : task[t].pc \in RespondPcs

\* The content of the response of the last round, as respond hands it to
\* transform_response
LastContent(t) ==
    [src |-> "llm", round |-> task[t].llm_calls,
     blank |-> task[t].content = "blank"]

RespondBounded ==
    \A t \in Tasks :
        /\ task[t].llm_calls <= max_rounds
        /\ task[t].round <= max_rounds
        /\ (task[t].llm_calls = max_rounds /\ task[t].reply \in ToolCalls) =>
              /\ task[t].pc # "bllm"
              /\ task[t].pc = "bsend" =>
                    task[t].text \in
                       { FinalText(Edited(LastContent(t), e)) :
                            e \in {"keep", "blank", "words"} }

\* C11: respond calls the LLM at most max_rounds (10) times and terminates
\* whatever the LLM answers; when the 10th response still carries tool calls,
\* no further call is made and respond returns what transform_response and
\* the placeholder rule make of the content of that 10th response.
C11_RespondTerminates ==
    /\ []RespondBounded
    /\ InRespond ~> ~InRespond

C11_Witness ==
    \E t \in Tasks :
        /\ task[t].llm_calls = max_rounds
        /\ task[t].reply \in ToolCalls
        /\ task[t].pc = "bsend"
        /\ task[t].text = [src |-> "llm", round |-> max_rounds,
                           blank |-> FALSE]


Count(seq, x) == Cardinality({ k \in DOMAIN seq : seq[k] = x })

\* C12: when llm.chat raises LLMError, in whatever round, respond does not
\* raise: it dispatches on_error with hook "llm_call" exactly once, does not
\* run transform_response, and returns the "Error: ..." string.
C12_LLMErrorAbsorbed ==
    \A t \in Tasks :
        task[t].reply = "LLMError" =>
           /\ task[t].outcome # "raised"
           /\ "transform_response" \notin Range(task[t].hooks)
           /\ \/ /\ task[t].pc = "llmerr"
                 /\ Count(task[t].hooks, "on_error:llm_call") = 0
              \/ /\ task[t].pc # "llmerr"
                 /\ Count(task[t].hooks, "on_error:llm_call") = 1
                 /\ task[t].pc = "bsend" => task[t].text = ErrorText

C12_Witness ==
    \E t \in Tasks :
        /\ task[t].reply = "LLMError"
        /\ task[t].llm_calls = 3
        /\ task[t].pc = "bsend"
        /\ task[t].text = ErrorText


\* C13: every text handle_message sends is non-blank: a blank final content
\* is replaced by the placeholder, on every path through respond and
\* on_before_send.
C13_SentTextNotBlank ==
    \A t \in Tasks :
        task[t].send_ok # "none" => ~task[t].text.blank


\* The follow-up of a send is due: comm.send has returned and the hook that
\* follows it has not been dispatched yet
FollowUpDue == \E t \in Tasks : task[t].pc \in {"asend", "senderr"}

OneFollowUp ==
    \A t \in Tasks :
        LET after == Count(task[t].hooks, "on_after_send")
            error == Count(task[t].hooks, "on_error:send")
            due == task[t].pc \in {"asend", "senderr"}
        IN CASE task[t].send_ok = "yes" ->
                  error = 0 /\ after = (IF due THEN 0 ELSE 1)
             [] task[t].send_ok = "no" ->
                  after = 0 /\ error = (IF due THEN 0 ELSE 1)
             [] OTHER -> after = 0 /\ error = 0 /\ ~due

\* C14: after every send handle_message attempts, exactly one follow-up hook
\* runs, never both and never twice: on_after_send when comm.send returned
\* True, on_error with hook "send" when it returned False; neither runs
\* without a send.
C14_OneFollowUpPerSend ==
    /\ []OneFollowUp
    /\ FollowUpDue ~> ~FollowUpDue

C14_Witness ==
    \E t \in Tasks :
        /\ task[t].send_ok = "no"
        /\ Count(task[t].hooks, "on_error:send") = 1
        /\ task[t].pc = "done"


(***************************************************************************)
(* Cobot.poll, under Spec.                                                 *)
(***************************************************************************)
\* C15: failures are isolated per message.  A task of the cycle that raises
\* is finished and nothing else: its siblings run to their own end before
\* poll returns len(messages); no exception of communication.poll or of a
\* handle_message leaves Cobot.poll; a poll whose communication.poll raised
\* dispatches on_error and returns 0.
C15_FailuresIsolated ==
    /\ loop # "crashed"
    /\ \A t \in Tasks :
          task[t].outcome = "raised" =>
             /\ task[t].pc = "done"
             /\ loop \in {"gather", "exec"}
    /\ polled # None =>
          /\ ~polled.raised
          /\ polled.on_error => polled.result = 0 /\ polled.outcomes = <<>>
          /\ ~polled.on_error =>
                /\ polled.result = polled.messages
                /\ Len(polled.outcomes) = polled.messages
                /\ \A k \in DOMAIN polled.outcomes :
                      polled.outcomes[k] # "running"

C15_Witness ==
    /\ polled # None
    /\ polled.outcomes = <<"raised", "sent">>
    /\ polled.result = 2
    /\ scn.poll_failures = 0


(***************************************************************************)
(* registry.py: PluginRegistry, registration and lifecycle.                *)
(*                                                                         *)
(* A registry value holds the fields of the object (_plugins, a dict in    *)
(* insertion order, as the sequence of its values; _capabilities;          *)
(* _load_order; _started), the PluginMeta of the plugin classes, and log,  *)
(* the configure / start / stop calls the registry has made on plugins.    *)
(***************************************************************************)
PluginIds == {"a", "b", "c"}

\* The plugin classes: one per id, and a second class declaring the id "a"
PluginClasses ==
    { [id |-> i, variant |-> 1] : i \in PluginIds } \cup
    { [id |-> "a", variant |-> 2] }

Capabilities == {"llm", "tools"}

\* PluginMeta of the classes: any priorities, at most one dependency each
Metas ==
    { [i \in PluginIds |->
          [priority |-> pr[i], dependencies |-> dep[i],
           capabilities |-> IF i = "c" THEN {"llm", "tools"} ELSE {"llm"}]] :
        pr \in [PluginIds -> 1 .. MaxPriority],
        dep \in { d \in [PluginIds -> SUBSET PluginIds] :
                    \A i \in PluginIds :
                       i \notin d[i] /\ Cardinality(d[i]) <= 1 } }

NewRegistry(meta) ==
    [meta |-> meta, _plugins |-> <<>>,
     _capabilities |-> [cap \in Capabilities |-> <<>>],
     _load_order |-> <<>>, _started |-> FALSE, log |-> <<>>]

\* The keys of _plugins, in insertion order
Keys(r) == [k \in DOMAIN r._plugins |-> r._plugins[k].id]

Registered(r) == { r._plugins[k].id : k \in DOMAIN r._plugins }

\* register without the duplicate test: `self._plugins[meta.id] = instance`
\* replaces the value of an existing key in place
RegisterOverwrites(r, cls, ctor_raises) ==
    IF ctor_raises THEN [r |-> r, raised |-> TRUE]
    ELSE [r |-> [r EXCEPT
                   !._plugins =
                      IF cls.id \in Registered(r)
                      THEN [k \in DOMAIN @ |->
                              IF @[k].id = cls.id THEN cls ELSE @[k]]
                      ELSE Append(@, cls),
                   !._capabilities =
                      [cap \in Capabilities |->
                         IF cap \in r.meta[cls.id].capabilities
                         THEN Append(@[cap], cls.id) ELSE @[cap]]],
          raised |-> FALSE]

\* register(plugin_class): PluginError for a duplicate id or a constructor
\* that raises; else the instance is stored and its capabilities listed
register(r, cls, ctor_raises) ==
    IF cls.id \in Registered(r) THEN [r |-> r, raised |-> TRUE]
    ELSE IF ctor_raises THEN [r |-> r, raised |-> TRUE]
    ELSE [r |-> [r EXCEPT
                   !._plugins = Append(@, cls),
                   !._capabilities =
                      [cap \in Capabilities |->
                         IF cap \in r.meta[cls.id].capabilities
                         THEN Append(@[cap], cls.id) ELSE @[cap]]],
          raised |-> FALSE]

\* The instance stored under id i
Instance(r, i) ==
    r._plugins[CHOOSE k \in DOMAIN r._plugins : r._plugins[k].id = i]

\* get_by_capability(capability): the plugin of the first id listed under the
\* capability, None when the list is empty
get_by_capability(r, cap) ==
    IF r._capabilities[cap] = <<>> THEN None
    ELSE Instance(r, r._capabilities[cap][1])

\* _resolve_load_order: sorted(self._plugins.keys(), key=priority).  sorted
\* is stable: plugins of equal priority keep their insertion order.
RECURSIVE FromPriority(_, _)
FromPriority(r, p) ==
    IF p > MaxPriority THEN <<>>
    ELSE SelectSeq(Keys(r), LAMBDA i : r.meta[i].priority = p)
           \o FromPriority(r, p + 1)

_resolve_load_order(r) == FromPriority(r, 1)

\* _check_dependencies: TRUE when it returns, FALSE when it raises
_check_dependencies(r) ==
    \A i \in Registered(r) : r.meta[i].dependencies \subseteq Registered(r)

\* The calls of `op` on the first n plugins of `order`
Calls(op, order, n) == [k \in 1 .. n |-> [op |-> op, id |-> order[k]]]

Reverse(seq) == [k \in 1 .. Len(seq) |-> seq[Len(seq) + 1 - k]]

\* configure_all(config); `bad` is the place in the load order of the plugin
\* whose configure raises, 0 when none does
configure_all(r, bad) ==
    LET order == _resolve_load_order(r)
        r1 == [r EXCEPT !._load_order = order]
    IN IF ~_check_dependencies(r1) THEN [r |-> r1, raised |-> TRUE]
       ELSE [r |-> [r1 EXCEPT !.log =
                      @ \o Calls("configure", order,
                                 IF bad = 0 THEN Len(order) ELSE bad)],
             raised |-> bad # 0]

\* start_all(); `bad` is the place of the plugin whose start raises (or is a
\* plain `def`, whose result cannot be awaited), 0 when none does
start_all(r, bad) ==
    IF r._started THEN [r |-> r, raised |-> FALSE]
    ELSE IF bad # 0
    THEN [r |-> [r EXCEPT !.log = @ \o Calls("start", r._load_order, bad)],
          raised |-> TRUE]
    ELSE [r |-> [r EXCEPT
                   !.log = @ \o Calls("start", r._load_order,
                                      Len(r._load_order)),
                   !._started = TRUE],
          raised |-> FALSE]

\* stop_all(): what a stop raises is printed and the loop goes on
stop_all(r) ==
    IF ~r._started THEN [r |-> r, raised |-> FALSE]
    ELSE [r |-> [r EXCEPT
                   !.log = @ \o Calls("stop", Reverse(r._load_order),
                                      Len(r._load_order)),
                   !._started = FALSE],
          raised |-> FALSE]

(***************************************************************************)
(* SpecRegistry: a startup as init_plugins runs it (register the classes   *)
(* found, configure_all, start_all; a PluginError of register is printed,  *)
(* one of configure_all or start_all leaves init_plugins), then start_all  *)
(* and stop_all calls in any order.  reg.ip is where init_plugins stands,  *)
(* reg.last the last call made on the registry, reg.left the budgets.      *)
(***************************************************************************)
InitRegistry ==
    /\ hk = HkIdle /\ StoreUnused /\ AgentUnused /\ PairUnused
    /\ ExtUnused
    /\ \E meta \in Metas :
          reg = [r |-> NewRegistry(meta), ip |-> "register",
                 last |-> [n |-> 0, op |-> "none", raised |-> FALSE,
                           cls |-> None, at |-> 0],
                 left |-> [registers |-> MaxRegisterCalls,
                           calls |-> MaxLifecycleCalls,
                           failures |-> MaxPluginFailures,
                           lookups |-> MaxLookups],
                 got |-> None]

RegKeeps == UNCHANGED <<hookVars, storeVars, agentVars, pairVars, extVars>>

\* The places of the load order where a plugin method may raise, 0 for none
Failing(order) ==
    IF reg.left.failures > 0 THEN 0 .. Len(order) ELSE {0}

Fails(bad) ==
    IF bad THEN [reg.left EXCEPT !.failures = @ - 1] ELSE reg.left

Called(op, cls, res) ==
    [n |-> reg.last.n + 1, op |-> op, raised |-> res.raised, cls |-> cls,
     at |-> Len(reg.r.log)]

\* init_plugins: `registry.register(plugin_class)` in its try
Register ==
    /\ reg.ip = "register"
    /\ reg.left.registers > 0
    /\ \E cls \in PluginClasses,
          ctor_raises \in (IF reg.left.failures > 0 THEN BOOLEAN
                           ELSE {FALSE}) :
          LET res == register(reg.r, cls, ctor_raises)
          IN reg' = [reg EXCEPT
                       !.r = res.r,
                       !.last = Called("register", cls, res),
                       !.left = [Fails(ctor_raises) EXCEPT
                                   !.registers = @ - 1]]
    /\ RegKeeps

\* init_plugins after configure_all: start_all follows unless it raised
StartAnyway(raised) == "start"

AfterConfigure(raised) == IF raised THEN "configure_raised" ELSE "start"

\* init_plugins: `registry.configure_all(config)`
ConfigureAll ==
    /\ reg.ip = "register"
    /\ \E bad \in Failing(_resolve_load_order(reg.r)) :
          LET res == configure_all(reg.r, bad)
          IN reg' = [reg EXCEPT
                       !.r = res.r,
                       !.last = Called("configure_all", None, res),
                       !.left = Fails(bad # 0 /\ _check_dependencies(reg.r)),
                       !.ip = AfterConfigure(res.raised)]
    /\ RegKeeps

\* init_plugins: `await registry.start_all()`
StartAll ==
    /\ reg.ip = "start"
    /\ \E bad \in Failing(reg.r._load_order) :
          LET res == start_all(reg.r, bad)
          IN reg' = [reg EXCEPT
                       !.r = res.r,
                       !.last = Called("start_all", None, res),
                       !.left = Fails(res.raised),
                       !.ip = IF res.raised THEN "start_raised"
                              ELSE "returned"]
    /\ RegKeeps

\* The startup is over with a configured registry: the callers that hold it
Configured == reg.ip \in {"returned", "start_raised"}

\* A later `await registry.start_all()`
StartAllAgain ==
    /\ Configured
    /\ reg.left.calls > 0
    /\ \E bad \in Failing(reg.r._load_order) :
          LET res == start_all(reg.r, bad)
          IN reg' = [reg EXCEPT
                       !.r = res.r,
                       !.last = Called("start_all", None, res),
                       !.left = [Fails(res.raised) EXCEPT !.calls = @ - 1]]
    /\ RegKeeps

\* `await registry.stop_all()`: Cobot.run_loop, run_stdin, _do_restart
StopAll ==
    /\ Configured
    /\ reg.left.calls > 0
    /\ LET res == stop_all(reg.r)
       IN reg' = [reg EXCEPT
                    !.r = res.r,
                    !.last = Called("stop_all", None, res),
                    !.left = [reg.left EXCEPT !.calls = @ - 1]]
    /\ RegKeeps

\* `registry.get_by_capability(cap)`: Cobot._get_llm, Cobot._get_tools;
\* reg.got is the capability asked for and the plugin returned
GetByCapability ==
    /\ reg.left.lookups > 0
    /\ \E cap \in Capabilities :
          reg' = [reg EXCEPT
                    !.got = [cap |-> cap,
                             plugin |-> get_by_capability(reg.r, cap)],
                    !.left = [reg.left EXCEPT !.lookups = @ - 1]]
    /\ RegKeeps

NextRegistry ==
    \/ GetByCapability
    \/ Register
    \/ ConfigureAll
    \/ StartAll
    \/ StartAllAgain
    \/ StopAll

SpecRegistry == InitRegistry /\ [][NextRegistry]_vars


(***************************************************************************)
(* The registry, under SpecRegistry.                                       *)
(***************************************************************************)
\* Entry k of the log and the entries from j to k belong to one configure_all
\* or start_all run: nothing else was called in between
SameRun(log, j, k) == \A m \in j .. k : log[m].op = log[k].op

\* C16: for every registered plugin P and every id D of P.meta.dependencies,
\* configure_all and start_all call D before P, whatever the priorities and
\* the registration order.
C16_DependenciesFirst ==
    LET log == reg.r.log
    IN \A k \in DOMAIN log :
          log[k].op \in {"configure", "start"} =>
             \A D \in reg.r.meta[log[k].id].dependencies :
                \E j \in 1 .. k - 1 :
                   /\ log[j] = [op |-> log[k].op, id |-> D]
                   /\ SameRun(log, j, k)

\* The plugins whose start() has been called and whose stop() has not been
\* called since, in the order of the start calls
RECURSIVE StartedIn(_)
StartedIn(log) ==
    IF log = <<>> THEN <<>>
    ELSE LET e == log[Len(log)]
             before == StartedIn(SubSeq(log, 1, Len(log) - 1))
             others == SelectSeq(before, LAMBDA i : i # e.id)
         IN CASE e.op = "start" -> Append(others, e.id)
              [] e.op = "stop" -> others
              [] OTHER -> before

\* C17: stop_all calls stop() on every plugin whose start() was called, in
\* the exact reverse of the start order, whether start_all completed or
\* failed partway.
C17_StopAllStopsStarted ==
    reg.last.op = "stop_all" =>
       LET log == reg.r.log
           started == StartedIn(SubSeq(log, 1, reg.last.at))
       IN SubSeq(log, reg.last.at + 1, Len(log)) =
             Calls("stop", Reverse(started), Len(started))

\* C18: over any sequence of start_all and stop_all calls, no plugin's
\* start() is called twice without a stop() of it in between, and no
\* plugin's stop() twice without a start() in between.
C18_LifecycleIdempotent ==
    LET log == reg.r.log
    IN \A j, k \in DOMAIN log :
          (/\ j < k
           /\ log[j].op \in {"start", "stop"}
           /\ log[j] = log[k]) =>
             \E m \in j + 1 .. k - 1 :
                /\ log[m].id = log[k].id
                /\ log[m].op \in {"start", "stop"} \ {log[k].op}

NoDuplicateIds ==
    \A j, k \in DOMAIN reg.r._plugins :
        reg.r._plugins[j].id = reg.r._plugins[k].id => j = k

DuplicateRejected ==
    (/\ reg'.last.n # reg.last.n
     /\ reg'.last.op = "register"
     /\ reg'.last.cls.id \in Registered(reg.r)) =>
        /\ reg'.last.raised
        /\ reg'.r._plugins = reg.r._plugins
        /\ reg'.r._capabilities = reg.r._capabilities

\* C19: register of a class whose id is already registered fails and leaves
\* the registry as it was: the instance under that id and the capability
\* lists are unchanged; an id is never held twice.
C19_DuplicateRegisterFails ==
    /\ []NoDuplicateIds
    /\ [][DuplicateRejected]_vars

C19_Witness ==
    /\ reg.last.op = "register"
    /\ reg.last.raised
    /\ reg.last.cls = [id |-> "a", variant |-> 2]
    /\ \E k \in DOMAIN reg.r._plugins :
          reg.r._plugins[k] = [id |-> "a", variant |-> 1]
    /\ reg.left.failures = MaxPluginFailures

\* C20: when a registered plugin declares a dependency that is not
\* registered, configure_all raises before any configure is called, and the
\* startup does not start any plugin.
C20_MissingDependencyIsFatal ==
    (reg.ip # "register" /\ ~_check_dependencies(reg.r)) =>
       /\ reg.ip = "configure_raised"
       /\ reg.last.op = "configure_all" /\ reg.last.raised
       /\ reg.r.log = <<>>
       /\ ~reg.r._started

C20_Witness ==
    /\ reg.ip = "configure_raised"
    /\ ~_check_dependencies(reg.r)
    /\ Len(reg.r._plugins) = 2
    /\ reg.left.failures = MaxPluginFailures


(***************************************************************************)
(* run_hook, under SpecHook (continued).                                   *)
(***************************************************************************)
\* C21: on_error is never re-entered.  A hook method that raises inside an
\* on_error chain dispatches no further on_error, so the calls of one
\* run_hook nest at most one level deep, a run_hook("on_error") dispatches
\* nothing, each failing hook of the chain starts at most one on_error chain,
\* and the hook methods invoked are at most n + n * n for n plugins.
C21_OnErrorNotReentered ==
    HkReturned =>
        /\ \A k \in 1 .. Len(hk.res.calls) :
              /\ hk.res.calls[k].depth <= 1
              /\ hk.res.calls[k].depth = 1 => hk.res.calls[k].hook = "on_error"
        /\ hk.name = "on_error" => hk.res.errors = <<>>
        /\ Len(hk.res.errors) <= Len(HkChainCalls)
        /\ Len(hk.res.calls) <= HookPlugins + HookPlugins * HookPlugins

C21_Witness ==
    /\ HkReturned
    /\ hk.name = "on_message_received"
    /\ hk.beh[1].hook = "raise" /\ hk.beh[1].err = "raise"
    /\ hk.beh[2].err = "ok"
    /\ \E k \in 1 .. Len(hk.res.calls) :
          hk.res.calls[k] = [plugin |-> 2, hook |-> "on_error",
                             abortAtEntry |-> FALSE, depth |-> 1]
    /\ Len(hk.res.errors) = 1


(***************************************************************************)
(* The registry, under SpecRegistry (continued).                           *)
(***************************************************************************)
\* The registered plugins carrying cap, in load order
Carriers(r, cap) ==
    SelectSeq(_resolve_load_order(r),
              LAMBDA i : cap \in r.meta[i].capabilities)

FirstCarrier ==
    reg'.left.lookups < reg.left.lookups =>
       reg'.got.plugin =
          IF Carriers(reg.r, reg'.got.cap) = <<>> THEN None
          ELSE Instance(reg.r, Carriers(reg.r, reg'.got.cap)[1])

\* C22: get_by_capability(tag) returns the plugin that comes first in load
\* order (lowest priority number) among the registered plugins carrying tag,
\* whatever the registration order, and None when no plugin carries tag.
C22_FirstInLoadOrder == [][FirstCarrier]_vars


(***************************************************************************)
(* SpecInitPlugins: init_plugins over the discovered classes, for every    *)
(* provider and every enabled and disabled list.                           *)
(***************************************************************************)
InitIds == {"config", "ollama", "ppq", "tools"}

\* discover_plugins walks sorted(plugins_dir.iterdir()); the classes of
\* plugins.external come after them: here a package that declares the id
\* "tools" again
Discovered ==
    << [id |-> "config", variant |-> 1], [id |-> "ollama", variant |-> 1],
       [id |-> "ppq", variant |-> 1], [id |-> "tools", variant |-> 1],
       [id |-> "tools", variant |-> 2] >>

\* PluginMeta of the discovered classes, for any priorities
InitMetas ==
    { [i \in InitIds |->
          [priority |-> pr[i], dependencies |-> {},
           capabilities |-> CASE i \in {"ollama", "ppq"} -> {"llm"}
                              [] i = "tools" -> {"tools"}
                              [] OTHER -> {"config"}]] :
        pr \in [InitIds -> 1 .. MaxPriority] }

\* cobot.yml: provider (default "ppq"), plugins.enabled, plugins.disabled
PluginConfigs ==
    [provider : {"ppq", "ollama", "openai"},
     enabled : SUBSET InitIds, disabled : SUBSET InitIds]

\* The filter without the provider selection
PassesAnyProvider(cfg, meta, id) ==
    /\ id \notin cfg.disabled
    /\ ~(cfg.enabled # {} /\ id \notin cfg.enabled
           /\ id \notin {"config", "logger", cfg.provider})

\* The filter of the loop: TRUE when no `continue` is taken
Passes(cfg, meta, id) ==
    /\ id \notin cfg.disabled
    /\ ~("llm" \in meta[id].capabilities /\ id # cfg.provider)
    /\ ~(cfg.enabled # {} /\ id \notin cfg.enabled
           /\ id \notin {"config", "logger", cfg.provider})

InitInitPlugins ==
    /\ hk = HkIdle /\ StoreUnused /\ AgentUnused /\ PairUnused
    /\ ExtUnused
    /\ \E meta \in InitMetas, cfg \in PluginConfigs :
          reg = [r |-> NewRegistry(meta), ip |-> "register",
                 last |-> [n |-> 0, op |-> "none", raised |-> FALSE,
                           cls |-> None, at |-> 0],
                 left |-> [registers |-> 0, calls |-> 0,
                           failures |-> MaxPluginFailures, lookups |-> 0],
                 cfg |-> cfg, i |-> 1, out |-> <<>>]

\* One round of `for plugin_class in plugin_classes`: the filter, then
\* register in its try; a PluginError is printed and the loop goes on
FilterAndRegister ==
    /\ reg.ip = "register"
    /\ reg.i <= Len(Discovered)
    /\ LET cls == Discovered[reg.i]
       IN IF ~Passes(reg.cfg, reg.r.meta, cls.id)
          THEN reg' = [reg EXCEPT
                         !.i = @ + 1,
                         !.out = Append(@, "skipped"),
                         !.last = Called("skip", cls, [raised |-> FALSE])]
          ELSE \E ctor_raises \in (IF reg.left.failures > 0 THEN BOOLEAN
                                   ELSE {FALSE}) :
                  LET res == register(reg.r, cls, ctor_raises)
                  IN reg' = [reg EXCEPT
                               !.r = res.r,
                               !.i = @ + 1,
                               !.out = Append(@, IF res.raised THEN "raised"
                                                 ELSE "registered"),
                               !.last = Called("register", cls, res),
                               !.left = Fails(ctor_raises /\
                                              cls.id \notin Registered(reg.r))]
    /\ RegKeeps

\* `registry.configure_all(config)` after the loop
ConfigureDiscovered ==
    /\ reg.i > Len(Discovered)
    /\ ConfigureAll

NextInitPlugins ==
    \/ FilterAndRegister
    \/ ConfigureDiscovered
    \/ StartAll

SpecInitPlugins == InitInitPlugins /\ [][NextInitPlugins]_vars

\* The class is the instance stored in the registry
IsRegistered(cls) == \E k \in DOMAIN reg.r._plugins : reg.r._plugins[k] = cls

\* What the configuration says of a plugin id
Selected(id) ==
    /\ id \notin reg.cfg.disabled
    /\ ("llm" \notin reg.r.meta[id].capabilities \/ id = reg.cfg.provider)
    /\ \/ reg.cfg.enabled = {}
       \/ id \in reg.cfg.enabled
       \/ id \in {"config", "logger", reg.cfg.provider}

LoopDone == reg.i > Len(Discovered)

OneProvider ==
    \A k \in DOMAIN reg.r._plugins :
       "llm" \in reg.r.meta[reg.r._plugins[k].id].capabilities =>
           /\ reg.r._plugins[k].id = reg.cfg.provider
           /\ \A j \in DOMAIN reg.r._plugins :
                 "llm" \in reg.r.meta[reg.r._plugins[j].id].capabilities
                     => j = k

StoreCalled(op) == nops' = nops + 1 /\ last'.op = op

SameUser(a, b) == a.channel = b.channel /\ a.user_id.v = b.user_id.v

PendingUnique ==
    st # None =>
       \A j, k \in 1 .. Len(st.pending) :
          SameUser(st.pending[j], st.pending[k]) => j = k

ReturnsExisting ==
    StoreCalled("add_pending") =>
       \A k \in 1 .. Len(st.pending) :
          (st.pending[k].channel = "telegram"
             /\ st.pending[k].user_id.v = last'.arg.v)
          => /\ last'.result = st.pending[k]
             /\ st'.pending = st.pending
             /\ pf' = pf

\* C24: after any sequence of add_pending, approve, reject, revoke,
\* add_authorized and reloads the pending list holds at most one request per
\* (channel, user_id); add_pending for a user who has a pending request
\* returns that request, with its code, and creates nothing.
C24_OnePendingPerUser == []PendingUnique /\ [][ReturnsExisting]_vars

\* C24 witness: add_pending has returned the request the store file held
\* from an earlier run, and nothing was written.
C24_Witness ==
    /\ last # None /\ last.op = "add_pending"
    /\ last.arg = IntId("999")
    /\ last.result = PendingOf(Stranger, "K1")
    /\ st.pending = <<PendingOf(Stranger, "K1")>>
    /\ pf.mtime = 1

\* C25: after any sequence of add_pending, add_authorized, approve, reject
\* and revoke the authorized list never holds two entries for the same
\* (channel, user_id).
C25_OneAuthorizedPerUser ==
    st # None =>
       \A j, k \in 1 .. Len(st.authorized) :
          (st.authorized[j].channel = st.authorized[k].channel
             /\ st.authorized[j].user_id = st.authorized[k].user_id) => j = k

UnknownCodeChangesNothing ==
    (StoreCalled("approve")
       /\ \A k \in 1 .. Len(st.pending) :
             st.pending[k].code # Upper(last'.arg))
    => /\ last'.result = None
       /\ st' = st
       /\ pf' = pf

\* C26: approve(code) for a code that matches no pending request, a code
\* already approved or rejected included, returns None and leaves the pending
\* list, the authorized list and the store file as they were.
C26_UnknownCodeChangesNothing == [][UnknownCodeChangesNothing]_vars

\* C26 witness: the code left by an earlier run was approved, and a second
\* approve of it has returned None.
C26_Witness ==
    /\ nops = 2
    /\ approved = {[channel |-> "telegram", user_id |-> Stranger]}
    /\ last.op = "approve" /\ last.arg = "K1" /\ last.result = None
    /\ pf.mtime = 2


(***************************************************************************)
(* plugins/session and plugins/communication.                              *)
(*                                                                         *)
(* SpecSession: communication.send and communication.poll over the         *)
(* channel adapters of the registry, for every behaviour of the adapters   *)
(* and of the session observers.                                           *)
(***************************************************************************)
\* The plugins implementing session.send and session.receive, in the order
\* get_implementations lists them (the insertion order of _plugins)
ChannelIds == <<"telegram", "nostr">>

\* The plugins implementing session.on_send and session.on_receive
ObserverIds == <<"archive", "audit">>

\* OutgoingMessage.channel_type: an adapter, or a type nothing serves
ChannelTypes == {"telegram", "nostr", "discord"}

\* _notify_observers: every implementation is called; what one raises is
\* printed and the loop goes on
_notify_observers(S, point) ==
    IF ~S.session_registry THEN <<>>
    ELSE [k \in 1 .. Len(ObserverIds) |->
            [plugin |-> ObserverIds[k], method |-> point]]

\* SessionPlugin.send with the observers notified whatever the adapter did
SendNotifiesAlways(S, channel_type, act) ==
    IF ~S.session_registry THEN [result |-> FALSE, calls |-> <<>>]
    ELSE LET hits == SelectSeq(ChannelIds, LAMBDA i : i = channel_type)
         IN IF hits = <<>> THEN [result |-> FALSE, calls |-> <<>>]
            ELSE [result |-> act[Head(hits)] = "true",
                  calls |-> <<[plugin |-> Head(hits),
                               method |-> "session.send"]>>
                            \o _notify_observers(S, "session.on_send")]

\* SessionPlugin.send: the first implementation of session.send whose plugin
\* id is the message's channel_type is called and the loop is left; act is
\* what the adapters' methods do ("true", "false", "raise")
session_send(S, channel_type, act) ==
    IF ~S.session_registry THEN [result |-> FALSE, calls |-> <<>>]
    ELSE LET hits == SelectSeq(ChannelIds, LAMBDA i : i = channel_type)
             call == <<[plugin |-> Head(hits), method |-> "session.send"]>>
         IN IF hits = <<>> THEN [result |-> FALSE, calls |-> <<>>]
            ELSE IF act[Head(hits)] = "true"
            THEN [result |-> TRUE,
                  calls |-> call \o _notify_observers(S, "session.on_send")]
            ELSE [result |-> FALSE, calls |-> call]

\* CommunicationPlugin.send: the implementations of communication.send (the
\* session plugin) are tried until one returns a truthy result
communication_send(S, channel_type, act) ==
    IF ~S.communication_registry THEN [result |-> FALSE, calls |-> <<>>]
    ELSE session_send(S, channel_type, act)

\* IncomingMessage.timestamp: a datetime, naive or timezone-aware
Stamps ==
    { [t |-> n, aware |-> FALSE] : n \in 1 .. MaxTimestamp } \cup
    { [t |-> 1, aware |-> TRUE] }

\* What an adapter's session.receive can do: raise, or return messages
Batches0(n) == UNION { [1 .. m -> Stamps] : m \in 0 .. n }

Receives ==
    { [raised |-> TRUE, messages |-> <<>>] } \cup
    { [raised |-> FALSE, messages |-> b] : b \in Batches0(MaxChannelBatch) }

\* messages.sort(key=lambda m: m.timestamp): a stable sort
RECURSIVE FromStamp(_, _)
FromStamp(msgs, n) ==
    IF n > MaxTimestamp THEN <<>>
    ELSE SelectSeq(msgs, LAMBDA m : m.timestamp.t = n) \o FromStamp(msgs, n + 1)

\* The list left as the channels delivered it
ArrivalOrder(msgs) == msgs

SortByTimestamp(msgs) == FromStamp(msgs, 1)

\* A naive and an aware datetime cannot be compared: sort raises TypeError
Comparable(msgs) ==
    \A j, k \in 1 .. Len(msgs) :
       msgs[j].timestamp.aware = msgs[k].timestamp.aware

\* The messages of the channels from the k-th on, in the order of the loop;
\* a channel whose receive raises contributes nothing
RECURSIVE Gathered(_, _)
Gathered(rcv, k) ==
    IF k > Len(ChannelIds) THEN <<>>
    ELSE (IF rcv[ChannelIds[k]].raised THEN <<>>
          ELSE [j \in 1 .. Len(rcv[ChannelIds[k]].messages) |->
                  [id |-> j, channel_type |-> ChannelIds[k],
                   timestamp |-> rcv[ChannelIds[k]].messages[j]]])
         \o Gathered(rcv, k + 1)

\* SessionPlugin.poll_all_channels
poll_all_channels(S, rcv) ==
    IF ~S.session_registry THEN [raised |-> FALSE, messages |-> <<>>]
    ELSE IF ~Comparable(Gathered(rcv, 1))
    THEN [raised |-> TRUE, messages |-> <<>>]
    ELSE [raised |-> FALSE, messages |-> SortByTimestamp(Gathered(rcv, 1))]

\* CommunicationPlugin.poll: the lists of the implementations of
\* communication.receive, an implementation that raises left out, sorted
communication_poll(S, rcv) ==
    IF ~S.communication_registry THEN <<>>
    ELSE LET impl == poll_all_channels(S, rcv)
         IN SortByTimestamp(IF impl.raised THEN <<>> ELSE impl.messages)

SesKeeps ==
    UNCHANGED <<hookVars, storeVars, agentVars, pairVars, regVars, lk, cf, rn>>

\* Before and after the start of the two plugins (start sets _registry)
InitSession ==
    /\ hk = HkIdle /\ StoreUnused /\ AgentUnused /\ PairUnused /\ RegUnused
    /\ lk = None /\ cf = None /\ rn = None
    /\ \E c, s \in BOOLEAN :
          ses = [communication_registry |-> c, session_registry |-> s,
                 last |-> [op |-> "none"]]

\* comm.send(OutgoingMessage(...)) of Cobot.handle_message
CommSend ==
    /\ \E channel_type \in ChannelTypes,
          act \in [{"telegram", "nostr"} -> {"true", "false", "raise"}] :
          LET res == communication_send(ses, channel_type, act)
          IN ses' = [ses EXCEPT
                       !.last = [op |-> "send", channel_type |-> channel_type,
                                 act |-> act, result |-> res.result,
                                 calls |-> res.calls]]
    /\ SesKeeps

\* comm.poll() of Cobot.poll
CommPoll ==
    /\ \E rcv \in [{"telegram", "nostr"} -> Receives] :
          ses' = [ses EXCEPT
                    !.last = [op |-> "poll", rcv |-> rcv,
                              messages |-> communication_poll(ses, rcv)]]
    /\ SesKeeps

NextSession == CommSend \/ CommPoll

SpecSession == InitSession /\ [][NextSession]_vars

\* The calls of the last send that went to `method`
SendCalls(method) ==
    SelectSeq(ses.last.calls, LAMBDA c : c.method = method)

\* The adapter of the message's channel type returned success
Delivered ==
    /\ \E k \in 1 .. Len(ChannelIds) : ChannelIds[k] = ses.last.channel_type
    /\ ses.last.act[ses.last.channel_type] = "true"

\* C27: communication.send invokes session.send on at most one adapter, the
\* one whose plugin id equals msg.channel_type; the session.on_send observers
\* are notified if and only if that adapter returned success; with no
\* matching adapter, a false result or an adapter exception the send returns
\* false and no observer is notified.
C27_SendRoutesToOneChannel ==
    ses.last.op = "send" =>
       /\ Len(SendCalls("session.send")) <= 1
       /\ \A k \in 1 .. Len(SendCalls("session.send")) :
             SendCalls("session.send")[k].plugin = ses.last.channel_type
       /\ SendCalls("session.on_send") # <<>> => Delivered
       /\ (Delivered /\ ses.communication_registry /\ ses.session_registry)
             => /\ ses.last.result = TRUE
                /\ Len(SendCalls("session.on_send")) = Len(ObserverIds)
                /\ Len(SendCalls("session.send")) = 1
       /\ ~Delivered => ses.last.result = FALSE

\* C27 witness: a send through the adapter it names, which reported success,
\* while the other adapter would have raised.
C27_Witness ==
    /\ ses.last.op = "send"
    /\ ses.last.channel_type = "nostr"
    /\ ses.last.act = [telegram |-> "raise", nostr |-> "true"]
    /\ ses.last.result = TRUE
    /\ Len(ses.last.calls) = 1 + Len(ObserverIds)

\* C28: communication.poll returns the messages of all channels in
\* non-decreasing timestamp order, for any number of channels and any
\* per-channel order of arrival.
C28_PollSortedByTimestamp ==
    ses.last.op = "poll" =>
       /\ \A j, k \in 1 .. Len(ses.last.messages) :
             j < k => ses.last.messages[j].timestamp.t
                         <= ses.last.messages[k].timestamp.t
       /\ (ses.communication_registry /\ ses.session_registry
             /\ Comparable(Gathered(ses.last.rcv, 1)))
          => \A m \in Range(Gathered(ses.last.rcv, 1)) :
                \E k \in 1 .. Len(ses.last.messages) : ses.last.messages[k] = m

\* C28 witness: both channels delivered, one of them newest first, and the
\* poll returned the three messages oldest first.
C28_Witness ==
    /\ ses.last.op = "poll"
    /\ ses.last.rcv.telegram.messages = <<[t |-> 2, aware |-> FALSE],
                                          [t |-> 1, aware |-> FALSE]>>
    /\ ses.last.rcv.nostr.messages = <<[t |-> 1, aware |-> FALSE]>>
    /\ Len(ses.last.messages) = 3
    /\ ses.last.messages[3].timestamp.t = 2


(***************************************************************************)
(* plugins/lurker.                                                         *)
(*                                                                         *)
(* SpecLurker: the two hooks of the LurkerPlugin on the contexts the agent *)
(* passes, for every lurker configuration, with sinks that may raise and a *)
(* built-in sink whose file write may fail.                                *)
(***************************************************************************)
\* The channel ids of the contexts; "" stands for a context without the key
\* (`cobot run --stdin`)
LurkChannels == {"c1", "c2"}

CtxChannels == LurkChannels \cup {""}

\* What the environment does during one hook call: the lurker.on_observe
\* implementations (none, one that returns, one that raises) and the write
\* of the built-in sink
Environments ==
    [on_observe : {"none", "ok", "raise"}, write_fails : BOOLEAN]

\* LurkerPlugin.__init__ and configure
NewLurker(channels, sink) ==
    [_channels |-> channels, _sink |-> sink,
     _counts |-> [c \in LurkChannels |-> 0], sunk |-> 0, written |-> <<>>]

\* _observe: count, call the lurker.on_observe implementations in a try
\* each (sunk counts the calls; what one raises is printed), then write to
\* the built-in sink
_observe(L, obs, env) ==
    LET L1 == [L EXCEPT !._counts[obs.channel_id] = @ + 1,
                        !.sunk = IF env.on_observe = "none" THEN @ ELSE @ + 1]
    IN IF L._sink = "none" THEN [L |-> L1, raised |-> FALSE]
       ELSE IF env.write_fails THEN [L |-> L1, raised |-> TRUE]
       ELSE [L |-> [L1 EXCEPT !.written =
                      Append(@, [sink |-> L._sink,
                                 channel |-> obs.channel_id,
                                 direction |-> obs.direction,
                                 text |-> obs.message])],
             raised |-> FALSE]

\* The hook as the class docstring has it: abort is set on a lurked channel
ObserveAndAbort(L, ctx, direction, env) ==
    IF ctx.channel_id \notin L._channels
    THEN [L |-> L, ctx |-> ctx, raised |-> FALSE]
    ELSE LET r == _observe(L, [channel_id |-> ctx.channel_id,
                               direction |-> direction,
                               message |-> ctx.text], env)
         IN [L |-> r.L, ctx |-> [ctx EXCEPT !.abort = TRUE],
             raised |-> r.raised]

\* on_message_received (direction "incoming", the text is ctx["message"])
\* and on_after_send ("outgoing", ctx["text"]): a context of a channel that
\* is not lurked is returned at once; else the observation is built and
\* handed to _observe, and the context is returned
LurkerHook(L, ctx, direction, env) ==
    IF ctx.channel_id \notin L._channels
    THEN [L |-> L, ctx |-> ctx, raised |-> FALSE]
    ELSE LET r == _observe(L, [channel_id |-> ctx.channel_id,
                               direction |-> direction,
                               message |-> ctx.text], env)
         IN [L |-> r.L, ctx |-> ctx, raised |-> r.raised]

\* run_hook around one hook method: `ctx = await method(ctx)` in its try, a
\* method that raises leaves ctx as it was
AfterHook(ctx, res) == IF res.raised THEN ctx ELSE res.ctx

\* The contexts handle_message passes to the two hooks
Contexts ==
    [channel_id : CtxChannels, text : {"hi", ""}, abort : {FALSE}]

LkKeeps ==
    UNCHANGED <<hookVars, storeVars, agentVars, pairVars, regVars, ses, cf, rn>>

InitLurker ==
    /\ hk = HkIdle /\ StoreUnused /\ AgentUnused /\ PairUnused /\ RegUnused
    /\ ses = None /\ cf = None /\ rn = None
    /\ \E channels \in SUBSET LurkChannels,
          sink \in {"jsonl", "markdown", "none"} :
          lk = [L |-> NewLurker(channels, sink), last |-> [op |-> "none"],
                polled |-> [c \in LurkChannels |-> 0]]

Observed(L) == L._counts["c1"] + L._counts["c2"]

LurkerCall(op, ctx, env, res) ==
    lk' = [L |-> res.L,
           last |-> [op |-> op, ctx |-> ctx, env |-> env,
                     raised |-> res.raised, out |-> AfterHook(ctx, res)],
           polled |-> lk.polled]

\* run("on_message_received", ctx) reaching the lurker
LurkerReceived ==
    /\ Observed(lk.L) < MaxObserved
    /\ \E ctx \in Contexts, env \in Environments :
          LurkerCall("on_message_received", ctx, env,
                     LurkerHook(lk.L, ctx, "incoming", env))
    /\ LkKeeps

\* run("on_after_send", ctx) reaching the lurker
LurkerAfterSend ==
    /\ Observed(lk.L) < MaxObserved
    /\ \E ctx \in Contexts, env \in Environments :
          LurkerCall("on_after_send", ctx, env,
                     LurkerHook(lk.L, ctx, "outgoing", env))
    /\ LkKeeps

\* The load order of a registry with the pairing plugin (priority 5) and the
\* lurker (priority 6), and what the two do on on_message_received: pairing
\* passes an authorized sender and aborts on any other, the lurker returns
\* or raises
GateOrder == <<"pairing", "lurker">>

GateBeh(bpair, blurk) ==
    [p \in {"pairing", "lurker"} |->
        IF p = "pairing" THEN [hook |-> bpair, err |-> "skip"]
        ELSE [hook |-> blurk, err |-> "skip"]]

\* the chain reached the lurker's hook
LurkerReached(r) ==
    \E k \in 1 .. Len(r.calls) : r.calls[k].plugin = "lurker"

\* handle_message for a message a poll returned on channel ctx.channel_id:
\* `await run("on_message_received", ctx)` on that registry
MessagePolled ==
    /\ Observed(lk.L) < MaxObserved
    /\ lk.polled["c1"] + lk.polled["c2"] < MaxObserved
    /\ \E ctx \in Contexts, env \in Environments, bpair \in {"ok", "abort"} :
          LET res == LurkerHook(lk.L, ctx, "incoming", env)
              r == run_hook(GateOrder,
                            GateBeh(bpair,
                                    IF res.raised THEN "raise" ELSE "ok"),
                            "on_message_received")
              seen == [c \in LurkChannels |->
                           IF c = ctx.channel_id THEN lk.polled[c] + 1
                           ELSE lk.polled[c]]
          IN /\ ctx.channel_id \in LurkChannels
             /\ lk' = IF LurkerReached(r)
                      THEN [L |-> res.L,
                            last |-> [op |-> "on_message_received",
                                      ctx |-> ctx, env |-> env,
                                      raised |-> res.raised,
                                      out |-> AfterHook(ctx, res)],
                            polled |-> seen]
                      ELSE [lk EXCEPT !.polled = seen]
    /\ LkKeeps

NextLurker == LurkerReceived \/ LurkerAfterSend \/ MessagePolled

SpecLurker == InitLurker /\ [][NextLurker]_vars

DigitChars == <<"0", "1", "2", "3", "4", "5", "6", "7", "8", "9">>

IsDigitChar(ch) == \E d \in 1 .. Len(DigitChars) : DigitChars[d] = ch

DigitOf(ch) == (CHOOSE d \in 1 .. Len(DigitChars) : DigitChars[d] = ch) - 1

\* int(value) of a string of digits
RECURSIVE IntOf(_)
IntOf(v) ==
    IF v = <<>> THEN 0
    ELSE IntOf(SubSeq(v, 1, Len(v) - 1)) * Len(DigitChars) + DigitOf(v[Len(v)])

\* str(n) of a natural number
RECURSIVE Digits(_)
Digits(n) ==
    IF n < Len(DigitChars) THEN <<DigitChars[n + 1]>>
    ELSE Digits(n \div Len(DigitChars))
           \o <<DigitChars[(n % Len(DigitChars)) + 1]>>

\* value.lower()
Lower(v) == [k \in 1 .. Len(v) |-> IF v[k] = "T" THEN "t" ELSE v[k]]

\* value.isdigit()
isdigit(v) == v # <<>> /\ \A k \in 1 .. Len(v) : IsDigitChar(v[k])

\* float(value) succeeds: digits around one point, with a digit somewhere
IsFloat(v) ==
    /\ \E k \in 1 .. Len(v) : IsDigitChar(v[k])
    /\ \E p \in 1 .. Len(v) :
          /\ v[p] = "."
          /\ \A k \in 1 .. Len(v) : k # p => IsDigitChar(v[k])

RECURSIVE StripZeros(_)
StripZeros(v) ==
    IF v # <<>> /\ v[Len(v)] = "0" THEN StripZeros(SubSeq(v, 1, Len(v) - 1))
    ELSE v

\* float(value): the integer part and the fraction digits that count
FloatOf(v) ==
    LET p == CHOOSE k \in 1 .. Len(v) : v[k] = "."
    IN [t |-> "float", i |-> IntOf(SubSeq(v, 1, p - 1)),
        f |-> StripZeros(SubSeq(v, p + 1, Len(v)))]

\* config_set: "true"/"false" in any case give a bool, digits an int, what
\* float() accepts a float, anything else stays a string
ParseValue(v) ==
    IF Lower(v) = <<"t", "r", "u", "e">> THEN [t |-> "bool", b |-> TRUE]
    ELSE IF Lower(v) = <<"f", "a", "l", "s", "e">>
    THEN [t |-> "bool", b |-> FALSE]
    ELSE IF isdigit(v) THEN [t |-> "int", n |-> IntOf(v)]
    ELSE IF IsFloat(v) THEN FloatOf(v)
    ELSE [t |-> "str", s |-> v]

\* click.echo(current): str() of the value
Echo(x) ==
    CASE x.t = "bool" -> IF x.b THEN <<"T", "r", "u", "e">>
                         ELSE <<"F", "a", "l", "s", "e">>
      [] x.t = "int" -> Digits(x.n)
      [] x.t = "float" ->
            Digits(x.i) \o <<".">> \o (IF x.f = <<>> THEN <<"0">> ELSE x.f)
      [] x.t = "str" -> x.s
      [] OTHER -> <<"{", "}">>

\* The value strings of the model
ValueChars == {"0", "7", ".", "a"}

ValueStrings ==
    UNION { [1 .. n -> ValueChars] : n \in 1 .. MaxValueLen } \cup
    { <<"t", "r", "u", "e">>, <<"T", "r", "u", "e">>,
      <<"f", "a", "l", "s", "e">> }

\* key.split("."): the dot-paths of the model
KeyPaths == { <<"a">>, <<"a", "b">>, <<"b">> }

Leaf(path, val) == [path |-> path, val |-> val]

\* The leaves at or below path p
Under(tree, p) == { l \in tree : IsPrefix(p, l.path) }

\* isinstance(current, dict) for the node at path p
IsSection(tree, p) ==
    \/ p = <<>>
    \/ \E l \in tree :
          \/ l.path = p /\ l.val.t = "dict"
          \/ IsPrefix(p, l.path) /\ l.path # p

Prefixes(key) == { SubSeq(key, 1, j) : j \in 1 .. Len(key) - 1 }

NoConfig == [exists |-> FALSE, tree |-> {}]

ConfigOf(tree) == [exists |-> TRUE, tree |-> tree]

\* config_set: exit code 1 when a key on the way is not a section, else the
\* parsed value replaces what the path held and the file is written
config_set(F, key, value) ==
    IF \E p \in Prefixes(key) : Under(F.tree, p) # {} /\ ~IsSection(F.tree, p)
    THEN [F |-> F, exit |-> 1, out |-> <<>>]
    ELSE [F |-> ConfigOf(({ l \in F.tree : l.path \notin Prefixes(key) }
                            \ Under(F.tree, key))
                         \cup {Leaf(key, ParseValue(value))}),
          exit |-> 0, out |-> <<>>]

\* config_get: exit code 1 without a file or when a key of the path is
\* missing, else the value is printed
config_get(F, key) ==
    IF ~F.exists THEN [F |-> F, exit |-> 1, out |-> <<>>]
    ELSE IF \E j \in 1 .. Len(key) :
               \/ ~IsSection(F.tree, SubSeq(key, 1, j - 1))
               \/ Under(F.tree, SubSeq(key, 1, j)) = {}
    THEN [F |-> F, exit |-> 1, out |-> <<>>]
    ELSE [F |-> F, exit |-> 0,
          out |-> IF \E l \in F.tree : l.path = key
                  THEN Echo((CHOOSE l \in F.tree : l.path = key).val)
                  ELSE Echo([t |-> "dict"])]

\* cobot.yml before the commands: absent, empty, a scalar, a section
InitialConfigs ==
    { NoConfig, ConfigOf({}),
      ConfigOf({Leaf(<<"a">>, [t |-> "str", s |-> <<"a">>])}),
      ConfigOf({Leaf(<<"a", "b">>, [t |-> "int", n |-> 7])}) }

CfKeeps ==
    UNCHANGED <<hookVars, storeVars, agentVars, pairVars, regVars, ses, lk, rn>>

InitConfig ==
    /\ hk = HkIdle /\ StoreUnused /\ AgentUnused /\ PairUnused /\ RegUnused
    /\ ses = None /\ lk = None /\ rn = None
    /\ \E F \in InitialConfigs :
          cf = [F |-> F, n |-> 0, prev |-> [op |-> "none"],
                last |-> [op |-> "none"]]

\* `cobot config set KEY VALUE`
ConfigSet ==
    /\ cf.n < MaxConfigCommands
    /\ \E key \in KeyPaths, value \in ValueStrings :
          LET r == config_set(cf.F, key, value)
          IN cf' = [F |-> r.F, n |-> cf.n + 1, prev |-> cf.last,
                    last |-> [op |-> "set", key |-> key, value |-> value,
                              exit |-> r.exit, out |-> r.out]]
    /\ CfKeeps

\* `cobot config get KEY`
ConfigGet ==
    /\ cf.n < MaxConfigCommands
    /\ \E key \in KeyPaths :
          LET r == config_get(cf.F, key)
          IN cf' = [F |-> r.F, n |-> cf.n + 1, prev |-> cf.last,
                    last |-> [op |-> "get", key |-> key,
                              found |-> /\ cf.F.exists
                                        /\ Under(cf.F.tree, key) # {},
                              exit |-> r.exit, out |-> r.out]]
    /\ CfKeeps

NextConfig == ConfigSet \/ ConfigGet

SpecConfig == InitConfig /\ [][NextConfig]_vars

\* C30: config set(K, V) followed by config get(K) on the same file yields
\* V, for any dot-path K and any value string V; get of a path that does not
\* exist fails with exit code 1.
C30_SetThenGetYieldsValue ==
    /\ (cf.last.op = "get" /\ cf.prev.op = "set" /\ cf.prev.exit = 0
          /\ cf.prev.key = cf.last.key)
       => cf.last.exit = 0 /\ cf.last.out = cf.prev.value
    /\ (cf.last.op = "get" /\ ~cf.last.found) => cf.last.exit = 1

(***************************************************************************)
(* The dedup set of handle_message (Spec)                                  *)
(***************************************************************************)
\* a handle_message call has accepted message i in this step
AcceptedNow(i) == hist'[i].accepted > hist[i].accepted

\* C31 (as claimed): the trim drops the earliest-inserted keys, so the key a
\* handle_message call has just inserted is still in the set when the call
\* reaches its first await.
C31_InsertedKeySurvivesTrim ==
    [][\A i \in MsgIds :
          AcceptedNow(i) => KeyOf(i) \in processed_events'.keys]_vars

\* C32: at every point where a task or a hook can observe it (handle_message
\* has no await between the insertion and the trim), the dedup set holds at
\* most 1000 keys.
C32_DedupSetBounded == DedupSize(processed_events) <= DedupLimit

\* a trim has happened: the set went from 1000 keys to 1001 and back to 501
C32_Witness ==
    /\ DedupSize(processed_events) = DedupLimit + 1 - DedupDrop
    /\ \E i \in MsgIds : hist[i].accepted >= 1

(***************************************************************************)
(* The tool loop of respond (SpecRespond)                                  *)
(***************************************************************************)
\* the hook that follows each on_before_tool_exec of task t is
\* on_after_tool_exec
ToolHooksPaired(t) ==
    LET h == task[t].hooks
    IN \A k \in DOMAIN h :
          h[k] = "on_before_tool_exec" /\ k < Len(h)
             => h[k + 1] = "on_after_tool_exec"

\* C33 (as claimed): every tool call of an LLM response gets
\* on_before_tool_exec first; an abort there keeps the tool from running and
\* makes abort_message the result; on_after_tool_exec follows; and exactly
\* one tool turn with the call's id and the result is appended after the
\* assistant turn of the round, before the next LLM call or the end of
\* respond.
C33_EachToolCallGetsOneTurn ==
    \A t \in Tasks :
       LET tk == task[t]
       IN /\ ToolHooksPaired(t)
          /\ tk.pc = "btool" =>
                /\ tk.tool_turns + 1 = tk.assistant_turns
                /\ tk.last_turn.role = "assistant"
          /\ tk.pc = "atool" =>
                /\ tk.hooks[Len(tk.hooks)] = "on_before_tool_exec"
                /\ tk.tool_turns + 1 = tk.assistant_turns
                /\ tk.result = IF tk.blocked THEN "abort_message"
                               ELSE "executed"
          /\ tk.pc \notin {"btool", "atool"} =>
                /\ tk.tool_turns = tk.assistant_turns
                /\ Count(tk.hooks, "on_before_tool_exec") = tk.tool_turns
                /\ Count(tk.hooks, "on_after_tool_exec") = tk.tool_turns
                /\ tk.tool_turns > 0 =>
                      tk.last_turn = [role |-> "tool",
                                      call |-> tk.assistant_turns,
                                      content |-> tk.result]

(***************************************************************************)
(* _do_restart (Spec)                                                      *)
(***************************************************************************)
\* task t has passed the on_shutdown dispatch of _do_restart
ShutdownDispatched(t) == task[t].shutdown # None

\* C34 (as claimed): a restart delivers on_shutdown to the plugins that
\* implement it, then stops the plugins, then re-executes the process: no
\* task is at stop_all, and the process is not re-executed, before every
\* plugin that defines on_shutdown has been called.
C34_ShutdownHookBeforeStopAndExec ==
    /\ \A t \in Tasks :
          task[t].pc = "stop_all" =>
             /\ ShutdownDispatched(t)
             /\ task[t].shutdown.implementers
                   \subseteq task[t].shutdown.delivered
    /\ loop = "exec" =>
          \E t \in Tasks :
             /\ ShutdownDispatched(t)
             /\ task[t].shutdown.implementers
                   \subseteq task[t].shutdown.delivered

(***************************************************************************)
(* Readers and writers of pairing.yml (SpecPairing)                        *)
(***************************************************************************)
\* C35 (as claimed): a process that loads or reloads the store while the
\* other process writes it sees the complete old or the complete new file.
\* The owner is in every version either process writes (bootstrapped at
\* start, never revoked here), so the owner is in every store a process
\* holds in memory.
C35_ReloadSeesCompleteFile ==
    /\ InAuthorized(st, "telegram", Owner)
    /\ cli.S # None => InAuthorized(cli.S, "telegram", Owner)

(***************************************************************************)
(* Codes and the two lists of the pairing store (SpecStore)                *)
(***************************************************************************)
CodesUnique ==
    st # None =>
       \A j, k \in 1 .. Len(st.pending) :
          st.pending[j].code = st.pending[k].code => j = k

\* an approve or reject that found its code took one request off the list
RemovesOneRequest ==
    ((StoreCalled("approve") /\ last'.result # None)
        \/ (StoreCalled("reject") /\ last'.result = TRUE))
    => Len(st'.pending) = Len(st.pending) - 1

\* C36 (as claimed): no two pending requests of the store carry the same
\* code, so an approve or reject that finds its code removes the pending
\* request of exactly one (channel, user_id).
C36_CodeIdentifiesOneRequest == []CodesUnique /\ [][RemovesOneRequest]_vars

\* C39 (as claimed): after any sequence of add_pending, add_authorized (the
\* owner bootstrap of start included), approve, reject and revoke, no
\* (channel, user_id) is in the pending list and in the authorized list.
C39_PendingAndAuthorizedDisjoint ==
    st # None =>
       \A j \in 1 .. Len(st.pending), k \in 1 .. Len(st.authorized) :
          ~SameUser(st.pending[j], st.authorized[k])

(***************************************************************************)
(* The lurker in the on_message_received chain (SpecLurker)                *)
(***************************************************************************)
\* a poll has delivered a message on channel c in this step
PolledNow(c) == lk'.polled[c] = lk.polled[c] + 1

\* C37 (as claimed): every incoming message a poll returns on an observed
\* channel is observed exactly once, its channel's counter going up by one,
\* whether or not pairing aborts the message.
C37_EveryPolledMessageObserved ==
    [][\A c \in LurkChannels :
          (PolledNow(c) /\ c \in lk.L._channels)
             => lk'.L._counts[c] = lk.L._counts[c] + 1]_vars

\* the last tool call of task t was restart_self and tools.execute ran it
RanRestartSelf(t) ==
    /\ task[t].tool = "restart_self"
    /\ task[t].result = "executed"

\* C38 (as claimed): once restart_self has set the flag while a message is
\* handled, handle_message does not return for that message without having
\* entered _do_restart, whether the reply was sent, the send failed or
\* on_before_send aborted.
C38_RestartBeforeReturn ==
    \A t \in Tasks :
       ( /\ task[t].pc = "done"
         /\ RanRestartSelf(t)
         /\ task[t].outcome \in {"sent", "send_failed", "aborted"} )
       => ShutdownDispatched(t)

(***************************************************************************)
(* cli.py: the PID file.                                                   *)
(*                                                                         *)
(* SpecRun: up to MaxRunProcs `cobot run` processes and the `cobot         *)
(* restart` command on ~/.cobot/cobot.pid.  Nothing orders the file        *)
(* operations of different processes, so each action is one process's code *)
(* from one operation on the file to its next.                             *)
(***************************************************************************)
\* the PIDs of the `cobot run` processes
Procs == 1 .. MaxRunProcs

\* the PID file is absent (read_pid returns None)
NoPid == 0

\* where a process stands: not started, before read_pid, before write_pid,
\* running the agent (bot.run_loop_sync), gone
NewProc == [pc |-> "idle", exit |-> -1]

\* the processes os.kill(pid, 0) finds
Living == { p \in Procs : rn.proc[p].pc \in {"check", "write", "agent"} }

\* read_pid: the PID in the file if the file exists and the process does
read_pid(file, living) ==
    IF file # NoPid /\ file \in living THEN file ELSE NoPid

\* write_pid
write_pid(file, pid) == pid

\* remove_pid: unlink whatever file is there
remove_pid(file) == NoPid

RnKeeps ==
    UNCHANGED <<hookVars, storeVars, agentVars, pairVars, regVars, ses, lk,
                cf>>

InitRun ==
    /\ hk = HkIdle /\ StoreUnused /\ AgentUnused /\ PairUnused /\ RegUnused
    /\ ses = None /\ lk = None /\ cf = None
    /\ rn = [file |-> NoPid, proc |-> [p \in Procs |-> NewProc],
             signals |-> 0]

\* a `cobot run` command is started
RunStart(p) ==
    /\ rn.proc[p].pc = "idle"
    /\ rn' = [rn EXCEPT !.proc[p].pc = "check"]
    /\ RnKeeps

\* run: `existing_pid = read_pid()`; a live PID makes the command exit with
\* code 1
RunCheck(p) ==
    /\ rn.proc[p].pc = "check"
    /\ rn' = IF read_pid(rn.file, Living) # NoPid
             THEN [rn EXCEPT !.proc[p] = [pc |-> "exited", exit |-> 1]]
             ELSE [rn EXCEPT !.proc[p].pc = "write"]
    /\ RnKeeps

\* run: `write_pid(os.getpid())`, then the plugins are loaded and the agent
\* runs
RunWrite(p) ==
    /\ rn.proc[p].pc = "write"
    /\ rn' = [rn EXCEPT !.file = write_pid(@, p), !.proc[p].pc = "agent"]
    /\ RnKeeps

\* run: the agent loop returns or raises; `finally: remove_pid()`
RunReturn(p) ==
    /\ rn.proc[p].pc = "agent"
    /\ rn' = [rn EXCEPT !.file = remove_pid(@),
                        !.proc[p] = [pc |-> "exited", exit |-> 0]]
    /\ RnKeeps

\* the agent process is killed (SIGKILL, power loss): no finally clause runs
RunKilled(p) ==
    /\ rn.proc[p].pc = "agent"
    /\ rn' = [rn EXCEPT !.proc[p] = [pc |-> "exited", exit |-> 137]]
    /\ RnKeeps

\* `cobot restart`: read_pid, then SIGUSR1 to that process, whose handler
\* (handle_restart) removes the PID file and re-executes `cobot run` in the
\* same process
Restart ==
    /\ rn.signals < MaxRestartSignals
    /\ LET pid == read_pid(rn.file, Living)
       IN rn' = IF pid = NoPid
                THEN [rn EXCEPT !.signals = @ + 1]
                ELSE [rn EXCEPT !.signals = @ + 1,
                                !.file = remove_pid(@),
                                !.proc[pid].pc = "check"]
    /\ RnKeeps

NextRun ==
    \/ \E p \in Procs : RunStart(p)
    \/ \E p \in Procs : RunCheck(p)
    \/ \E p \in Procs : RunWrite(p)
    \/ \E p \in Procs : RunReturn(p)
    \/ \E p \in Procs : RunKilled(p)
    \/ Restart

SpecRun == InitRun /\ [][NextRun]_vars

\* the PID file names every process that runs the agent
PidFileNamesAgent ==
    \A p \in Procs : rn.proc[p].pc = "agent" => rn.file = p

\* a run that finds a live PID exits with code 1 and leaves the file alone
LiveRunRefused ==
    \A p \in Procs :
       ( /\ rn.proc[p].pc = "check"
         /\ rn'.proc[p].pc # "check"
         /\ read_pid(rn.file, Living) # NoPid )
       => /\ rn'.proc[p] = [pc |-> "exited", exit |-> 1]
          /\ rn'.file = rn.file

\* C40 (as claimed): while a process started by `cobot run` runs the agent,
\* the PID file exists and holds its PID, under any interleaving of runs,
\* restart signals and exits; and a run that finds a live PID recorded exits
\* with code 1 without writing or removing the file.
C40_PidFileHoldsLiveAgent ==
    []PidFileNamesAgent /\ [][LiveRunRefused]_vars

====
